---- MODULE Spec2Model ----
(***************************************************************************)
(* The generic workflow engine of apps/workflow: workflow definitions,     *)
(* runtime instances, guard evaluation, action execution, entity-event     *)
(* triggers and scheduled runs.                                            *)
(*                                                                         *)
(* Every Django table is a sequence of rows whose primary key is the       *)
(* row's index (rows are never deleted here).  Every request is served by  *)
(* a worker that performs the handler's database statements one at a time  *)
(* (autocommit: the workflow code opens no transaction), holding Python    *)
(* objects (row copies) in between.                                        *)
(***************************************************************************)
EXTENDS Integers, Sequences, FiniteSets, TLC

VARIABLES
    workflows,    \* table workflow_workflow
    states,       \* table workflow_state
    transitions,  \* table workflow_transition
    triggers,     \* table workflow_workflowtrigger
    schedules,    \* table workflow_scheduledworkflow
    entities,     \* table of the bound domain model (service tickets)
    instances,    \* table workflow_workflowinstance
    history,      \* table workflow_workflowhistory, in insertion (triggered_at) order
    workers       \* the requests in flight, one per worker

vars == <<workflows, states, transitions, triggers, schedules, entities,
          instances, history, workers>>

defVars == <<workflows, states, transitions, triggers>>

-----------------------------------------------------------------------------
(* Bounds of the exploration *)

\* at most this many WorkflowHistory rows are written by requests served one at a time
MaxHistory == 3
\* at most this many WorkflowHistory rows are written by concurrent requests
MaxRacing == 2
\* at most this many entities (tickets) exist
MaxEntities == 2
\* at most this many State rows exist in the definition-store specification
MaxStates == 3
MaxTickets == 3
MaxDay == 2
MaxTransitions == 2
MaxWorkflows == 3

\* a null foreign key / null datetime (pks start at 1)
NULL == 0
\* a non-null datetime, the value of timezone.now()
Timestamp == 1

\* the users on whose behalf the concurrent requests run (request.user)
Workers == {"u1", "u2"}

-----------------------------------------------------------------------------
(* Python values reached by dot-path navigation: None, str (a sequence of  *)
(* characters), int, dict (f maps keys) and object (f maps attributes).    *)

VNone == [t |-> "none", s |-> <<>>, n |-> 0, f |-> <<>>]
VStr(chars) == [t |-> "str", s |-> chars, n |-> 0, f |-> <<>>]
VInt(k) == [t |-> "int", s |-> <<>>, n |-> k, f |-> <<>>]
VDict(m) == [t |-> "dict", s |-> <<>>, n |-> 0, f |-> m]
VObj(m) == [t |-> "obj", s |-> <<>>, n |-> 0, f |-> m]

Low == VStr(<<"l", "o", "w">>)
Urgent == VStr(<<"u", "r", "g", "e", "n", "t">>)
InProgress == VStr(<<"i", "n", "_", "p", "r", "o", "g", "r", "e", "s", "s">>)
StatusNew == VStr(<<"n", "e", "w">>)

\* the characters of the fixture in ASCII order
Alphabet == <<"-", "0", "1", "2", "3", "4", "5", "6", "7", "8", "9", "N", "_",
              "a", "b", "c", "d", "e", "f", "g", "h", "i", "j", "k", "l", "m",
              "n", "o", "p", "q", "r", "s", "t", "u", "v", "w", "x", "y", "z",
              "{", "}">>
Ord(c) == CHOOSE i \in 1..Len(Alphabet) : Alphabet[i] = c

RECURSIVE StrLess(_, _)
\* a < b on str (lexicographic)
StrLess(a, b) ==
    IF b = <<>> THEN FALSE
    ELSE IF a = <<>> THEN TRUE
    ELSE IF Head(a) # Head(b) THEN Ord(Head(a)) < Ord(Head(b))
    ELSE StrLess(Tail(a), Tail(b))

\* needle in hay on str
IsSubstring(needle, hay) ==
    \E i \in 1..(Len(hay) + 1) :
        /\ i + Len(needle) - 1 <= Len(hay)
        /\ \A k \in 1..Len(needle) : hay[i + k - 1] = needle[k]

Digits == <<"0", "1", "2", "3", "4", "5", "6", "7", "8", "9">>
RECURSIVE NatRepr(_)
NatRepr(k) == IF k < 10 THEN <<Digits[k + 1]>>
              ELSE NatRepr(k \div 10) \o <<Digits[(k % 10) + 1]>>

\* str(v); the text of a dict or of a model instance is abstracted to "{}"
PyStr(v) ==
    CASE v.t = "str" -> v.s
      [] v.t = "int" -> IF v.n < 0 THEN <<"-">> \o NatRepr(0 - v.n) ELSE NatRepr(v.n)
      [] v.t = "none" -> <<"N", "o", "n", "e">>
      [] OTHER -> <<"{", "}">>

\* bool(v)
Truthy(v) ==
    CASE v.t = "none" -> FALSE
      [] v.t = "str" -> v.s # <<>>
      [] v.t = "int" -> v.n # 0
      [] v.t = "dict" -> DOMAIN v.f # {}
      [] OTHER -> TRUE

\* whether a < b, a <= b ... is defined in Python 3 (else TypeError)
Comparable(a, b) == a.t = b.t /\ a.t \in {"str", "int"}
PyLess(a, b) == IF a.t = "int" THEN a.n < b.n ELSE StrLess(a.s, b.s)
PyLessEq(a, b) == a = b \/ PyLess(a, b)

-----------------------------------------------------------------------------
(* Condition evaluation: Transition.can_transition and                     *)
(* WorkflowTrigger.should_trigger.  A field path is given already split on *)
(* "."; a call ends "true", "false" or "TypeError" (an exception that the  *)
(* evaluator does not catch and that reaches the caller).                  *)

RECURSIVE GetFieldValue(_, _)
\* _get_field_value: raised = AttributeError from getattr
GetFieldValue(value, path) ==
    IF path = <<>> THEN [raised |-> FALSE, v |-> value]
    ELSE IF value.t = "dict"
    THEN LET nv == IF Head(path) \in DOMAIN value.f THEN value.f[Head(path)] ELSE VNone
         IN  IF nv = VNone THEN [raised |-> FALSE, v |-> VNone]
             ELSE GetFieldValue(nv, Tail(path))
    ELSE IF value.t = "obj" /\ Head(path) \in DOMAIN value.f
    THEN LET nv == value.f[Head(path)]
         IN  IF nv = VNone THEN [raised |-> FALSE, v |-> VNone]
             ELSE GetFieldValue(nv, Tail(path))
    ELSE [raised |-> TRUE, v |-> VNone]

\* the if/elif chain over the operators: "pass" when no branch returns False
ApplyOperator(operator, field_value, value) ==
    CASE operator = "equals" -> IF field_value # value THEN "false" ELSE "pass"
      [] operator = "not_equals" -> IF field_value = value THEN "false" ELSE "pass"
      [] operator = "contains" ->
            IF value.t # "str" THEN "TypeError"
            ELSE IF ~IsSubstring(value.s, PyStr(field_value)) THEN "false" ELSE "pass"
      [] operator = "not_contains" ->
            IF value.t # "str" THEN "TypeError"
            ELSE IF IsSubstring(value.s, PyStr(field_value)) THEN "false" ELSE "pass"
      [] operator = "greater_than" ->
            IF ~Comparable(field_value, value) THEN "TypeError"
            ELSE IF PyLessEq(field_value, value) THEN "false" ELSE "pass"
      [] operator = "less_than" ->
            IF ~Comparable(field_value, value) THEN "TypeError"
            ELSE IF PyLessEq(value, field_value) THEN "false" ELSE "pass"
      [] operator = "greater_equal" ->
            IF ~Comparable(field_value, value) THEN "TypeError"
            ELSE IF PyLess(field_value, value) THEN "false" ELSE "pass"
      [] operator = "less_equal" ->
            IF ~Comparable(field_value, value) THEN "TypeError"
            ELSE IF PyLess(value, field_value) THEN "false" ELSE "pass"
      [] operator = "is_empty" -> IF Truthy(field_value) THEN "false" ELSE "pass"
      [] operator = "is_not_empty" -> IF ~Truthy(field_value) THEN "false" ELSE "pass"
      [] OTHER -> "pass"

RECURSIVE can_transition(_, _)
\* Transition.can_transition(instance) over the transition's conditions
can_transition(conditions, instance) ==
    IF conditions = <<>> THEN "true"
    ELSE LET c == Head(conditions)
             got == GetFieldValue(instance, c.field)
             r == IF got.raised THEN "false" ELSE ApplyOperator(c.operator, got.v, c.value)
         IN  IF c.field = <<>> \/ c.operator = "" THEN can_transition(Tail(conditions), instance)
             ELSE IF r = "pass" THEN can_transition(Tail(conditions), instance)
             ELSE r

RECURSIVE should_trigger(_, _, _, _)
\* WorkflowTrigger.should_trigger(instance, old_instance); old_instance = VNone when absent
should_trigger(type, conditions, instance, old_instance) ==
    IF conditions = <<>> THEN "true"
    ELSE LET c == Head(conditions)
             got == GetFieldValue(instance, c.field)
             old == GetFieldValue(old_instance, c.field)
             unchanged == /\ type = "on_field_change"
                          /\ old_instance # VNone
                          /\ ~old.raised
                          /\ old.v = got.v
             r == IF got.raised THEN "false" ELSE ApplyOperator(c.operator, got.v, c.value)
         IN  IF c.field = <<>> \/ c.operator = ""
             THEN should_trigger(type, Tail(conditions), instance, old_instance)
             ELSE IF got.raised THEN "false"
             ELSE IF unchanged \/ r = "pass"
             THEN should_trigger(type, Tail(conditions), instance, old_instance)
             ELSE r

-----------------------------------------------------------------------------
(* The definitions and data the specifications start from: the "Ticket     *)
(* Escalation" workflow New -> Escalated -> Resolved of the scenarios, a   *)
(* second workflow on the same model, their triggers and one schedule.     *)

\* f"{content_type.app_label}.{content_type.model}" of the ticket model
TicketModel == "service.serviceticket"
TicketContentType == "serviceticket"

WorkflowRows == <<
    [name |-> "Ticket Escalation", status |-> "active", model |-> TicketModel],
    [name |-> "Ticket Review", status |-> "active", model |-> TicketModel] >>

StateRows == <<
    [workflow |-> 1, name |-> "New", is_initial |-> TRUE, is_final |-> FALSE, order |-> 0],
    [workflow |-> 1, name |-> "Escalated", is_initial |-> FALSE, is_final |-> FALSE, order |-> 1],
    [workflow |-> 1, name |-> "Resolved", is_initial |-> FALSE, is_final |-> TRUE, order |-> 2],
    [workflow |-> 2, name |-> "Open", is_initial |-> TRUE, is_final |-> FALSE, order |-> 0],
    [workflow |-> 2, name |-> "Closed", is_initial |-> FALSE, is_final |-> TRUE, order |-> 1] >>

PriorityIsUrgent == [field |-> <<"priority">>, operator |-> "equals", value |-> Urgent]
PriorityIsLow == [field |-> <<"priority">>, operator |-> "equals", value |-> Low]

SetInProgress == [type |-> "update_field", field |-> <<"status">>, value |-> InProgress,
                  recipients |-> <<>>]
SetOwnerName == [type |-> "update_field", field |-> <<"owner", "name">>, value |-> Low,
                 recipients |-> <<>>]
SetContactName == [type |-> "update_field", field |-> <<"contact", "name">>, value |-> Low,
                   recipients |-> <<>>]
NotifyUser == [type |-> "send_notification", field |-> <<>>, value |-> VNone,
               recipients |-> <<"current_user">>]
EmailCreator == [type |-> "send_email", field |-> <<>>, value |-> VNone,
                 recipients |-> <<"creator">>]

TransitionRows == <<
    [workflow |-> 1, name |-> "escalate", from_state |-> 1, to_state |-> 2,
     conditions |-> <<PriorityIsUrgent>>, actions |-> <<NotifyUser, SetInProgress>>, order |-> 0],
    [workflow |-> 1, name |-> "resolve", from_state |-> 2, to_state |-> 3,
     conditions |-> <<>>, actions |-> <<EmailCreator>>, order |-> 1],
    [workflow |-> 1, name |-> "hand over", from_state |-> 2, to_state |-> 1,
     conditions |-> <<>>, actions |-> <<NotifyUser, SetOwnerName, EmailCreator>>, order |-> 2],
    [workflow |-> 1, name |-> "reopen", from_state |-> 3, to_state |-> 1,
     conditions |-> <<>>, actions |-> <<>>, order |-> 3],
    [workflow |-> 2, name |-> "close", from_state |-> 4, to_state |-> 5,
     conditions |-> <<>>, actions |-> <<SetContactName>>, order |-> 0] >>

TriggerRows == <<
    [workflow |-> 1, name |-> "escalation of urgent tickets", type |-> "on_create",
     field_name |-> "", conditions |-> <<PriorityIsUrgent>>, is_active |-> TRUE],
    [workflow |-> 2, name |-> "review of low tickets", type |-> "on_update",
     field_name |-> "", conditions |-> <<PriorityIsLow>>, is_active |-> TRUE] >>

ScheduleRows == <<
    [workflow |-> 1, schedule_type |-> "once", status |-> "pending",
     scheduled_date |-> Timestamp, last_run |-> NULL, next_run |-> NULL,
     filters |-> <<>>, data |-> "seed", created_by |-> "u1"] >>

\* a ticket as the evaluator sees it
Ticket(priority, status) ==
    VObj([priority |-> priority, status |-> status, contact |-> VNone,
          created_by |-> VNone])

Priorities == {Low, Urgent}

\* no row held in memory
NoRow == [workflow |-> NULL, content_type |-> "", object_id |-> NULL,
          current_state |-> NULL, status |-> "", started_by |-> "",
          completed_at |-> NULL, data |-> ""]

NoSchedule == [workflow |-> NULL, schedule_type |-> "", status |-> "",
               scheduled_date |-> NULL, last_run |-> NULL, next_run |-> NULL,
               filters |-> <<>>, data |-> "", created_by |-> ""]

NoState == [workflow |-> NULL, name |-> "", is_initial |-> FALSE, is_final |-> FALSE,
            order |-> 0]

\* a worker between requests
IdleWorker == [pc |-> "idle", op |-> "none", res |-> "",
               wf |-> NULL, ent |-> NULL, inst |-> NULL, row |-> NoRow,
               created |-> FALSE, queue |-> <<>>, obj |-> VNone, is_new |-> FALSE,
               before |-> VNone,
               sched |-> NULL, srow |-> NoSchedule, via |-> "",
               batch |-> <<>>, now |-> NULL,
               clone |-> NULL, mapping |-> <<>>,
               trans |-> NULL, notes |-> "", ai |-> 0, seen |-> 0,
               state |-> NULL, strow |-> NoState]

Pks(table) == 1..Len(table)

\* the rows of WorkflowHistory that belong to instance i, oldest first
RECURSIVE HistoryOf(_, _)
HistoryOf(rows, i) ==
    IF rows = <<>> THEN <<>>
    ELSE IF Head(rows).workflow_instance = i
    THEN <<Head(rows)>> \o HistoryOf(Tail(rows), i)
    ELSE HistoryOf(Tail(rows), i)

\* pks of a set, in ascending / descending order
RECURSIVE Ascending(_)
Ascending(S) ==
    IF S = {} THEN <<>>
    ELSE LET m == CHOOSE x \in S : \A y \in S : x <= y
         IN  <<m>> \o Ascending(S \ {m})
RECURSIVE Descending(_)
Descending(S) ==
    IF S = {} THEN <<>>
    ELSE LET m == CHOOSE x \in S : \A y \in S : x >= y
         IN  <<m>> \o Descending(S \ {m})

-----------------------------------------------------------------------------
(* Requests.  A worker's record holds the handler's local variables and pc *)
(* the statement it is about to execute; "done" holds the response until  *)
(* the worker takes the next request.                                      *)

Busy(w) == workers[w].pc # "idle"

\* the worker's record after its handler has returned code: what the request was, how
\* far it got and its response; the handler's working copies are gone
Respond(me, code) ==
    [IdleWorker EXCEPT !.pc = "done", !.res = code, !.op = me.op, !.wf = me.wf,
                       !.ent = me.ent, !.inst = me.inst, !.sched = me.sched,
                       !.via = me.via, !.clone = me.clone,
                       !.trans = me.trans, !.ai = me.ai, !.seen = me.seen]

\* the worker goes back to waiting for requests
Return(w) ==
    /\ workers[w].pc = "done"
    /\ workers' = [workers EXCEPT ![w] = IdleWorker]
    /\ UNCHANGED <<defVars, schedules, entities, instances, history>>

\* WorkflowInstance.Meta.unique_together = ('content_type', 'object_id')
UniqueTogetherViolated(rows, content_type, object_id) ==
    \E i \in Pks(rows) : /\ rows[i].content_type = content_type
                         /\ rows[i].object_id = object_id

\* the rows WorkflowInstance.objects.get(workflow=, content_type=, object_id=) matches
Matching(rows, wf, content_type, object_id) ==
    {i \in Pks(rows) : /\ rows[i].workflow = wf
                       /\ rows[i].content_type = content_type
                       /\ rows[i].object_id = object_id}

\* Workflow.get_initial_state: states.filter(is_initial=True).first(), NULL when none
InitialStates(wf) ==
    {s \in Pks(states) : states[s].workflow = wf /\ states[s].is_initial}
FirstInitialStates(wf) ==
    {s \in InitialStates(wf) :
        \A o \in InitialStates(wf) : states[s].order <= states[o].order}

\* instance.created_by if hasattr(instance, 'created_by') else None
StartedByOf(obj) ==
    IF "created_by" \in DOMAIN obj.f /\ obj.f.created_by # VNone THEN "creator" ELSE "none"

\* the row get_or_create inserts when it finds none
NewInstance(wf, e, started_by, data) ==
    [workflow |-> wf, content_type |-> TicketContentType, object_id |-> e,
     current_state |-> NULL, status |-> "active", started_by |-> started_by,
     completed_at |-> NULL, data |-> data]

\* what a handler does once get_or_create has returned an existing row
AfterFound(me, i) ==
    CASE me.op = "start" ->
            Respond([me EXCEPT !.inst = i, !.row = instances[i], !.created = FALSE], "200")
      [] me.op = "event" ->
            IF Tail(me.queue) = <<>> THEN Respond([me EXCEPT !.queue = <<>>], "200")
            ELSE [me EXCEPT !.pc = "trig", !.queue = Tail(@)]
      [] OTHER ->
            IF Tail(me.queue) = <<>> THEN [me EXCEPT !.pc = "sched_finish", !.queue = <<>>]
            ELSE [me EXCEPT !.pc = "get", !.queue = Tail(@)]

\* what a handler does when get_or_create raises (IntegrityError, MultipleObjectsReturned)
AfterRaise(me) ==
    IF me.op = "run" THEN [me EXCEPT !.pc = "sched_fail"] ELSE Respond(me, "500")

\* WorkflowViewSet.start up to the first query of get_or_create
StartBegin(w, wf, e, data) ==
    /\ workers[w].pc = "idle"
    /\ LET me == [IdleWorker EXCEPT !.op = "start", !.wf = wf, !.ent = e,
                                    !.row = NewInstance(wf, e, w, data)]
           found == Matching(instances, wf, TicketContentType, e)
       IN  workers' = [workers EXCEPT ![w] =
               IF e = NULL THEN Respond(me, "400")
               ELSE IF e \notin Pks(entities) THEN Respond(me, "404")
               ELSE IF Cardinality(found) > 1 THEN Respond(me, "500")
               ELSE IF found # {} THEN AfterFound(me, CHOOSE i \in found : TRUE)
               ELSE [me EXCEPT !.pc = "create"]]
    /\ UNCHANGED <<defVars, schedules, entities, instances, history>>

\* get_or_create after its get found nothing: the INSERT, and on IntegrityError the second get
GetOrCreateCreate(w) ==
    /\ workers[w].pc = "create"
    /\ LET me == workers[w]
           e == IF me.op = "run" THEN Head(me.queue) ELSE me.ent
           found == Matching(instances, me.wf, TicketContentType, e)
           i == Len(instances) + 1
       IN  IF UniqueTogetherViolated(instances, TicketContentType, e)
           THEN /\ workers' = [workers EXCEPT ![w] =
                       IF Cardinality(found) = 1
                       THEN AfterFound(me, CHOOSE x \in found : TRUE)
                       ELSE AfterRaise(me)]
                /\ UNCHANGED instances
           ELSE /\ instances' = Append(instances, [me.row EXCEPT !.object_id = e])
                /\ workers' = [workers EXCEPT ![w] =
                       IF me.op = "event"
                       THEN IF Tail(me.queue) = <<>>
                            THEN Respond([me EXCEPT !.queue = <<>>], "200")
                            ELSE [me EXCEPT !.pc = "trig", !.queue = Tail(@)]
                       ELSE [me EXCEPT !.pc = "init", !.inst = i, !.created = TRUE,
                                       !.row = [me.row EXCEPT !.object_id = e]]]
    /\ UNCHANGED <<defVars, schedules, entities, history>>

\* what a handler does once the created instance has (or lacks) its initial state
AfterCreated(me) ==
    IF me.op = "start" THEN Respond(me, "201")
    ELSE IF Tail(me.queue) = <<>> THEN [me EXCEPT !.pc = "sched_finish", !.queue = <<>>]
    ELSE [me EXCEPT !.pc = "get", !.queue = Tail(@)]

\* "if created: initial_state = workflow.get_initial_state(); if initial_state: ... save()"
SetInitialState(w) ==
    /\ workers[w].pc = "init"
    /\ LET me == workers[w]
       IN  IF FirstInitialStates(me.wf) = {}
           THEN /\ workers' = [workers EXCEPT ![w] = AfterCreated(me)]
                /\ UNCHANGED instances
           ELSE \E s \in FirstInitialStates(me.wf) :
                  LET saved == [me.row EXCEPT !.current_state = s]
                  IN  /\ instances' = [instances EXCEPT ![me.inst] = saved]
                      /\ workers' = [workers EXCEPT ![w] =
                             AfterCreated([me EXCEPT !.row = saved])]
    /\ UNCHANGED <<defVars, schedules, entities, history>>

-----------------------------------------------------------------------------
(* Entity events: the post_save receiver handle_workflow_triggers runs     *)
(* inside the request that saves the entity.                               *)

\* WorkflowTrigger.objects.filter(workflow__model=..., is_active=True), newest first
ActiveTriggers(model) ==
    Descending({t \in Pks(triggers) :
        triggers[t].is_active /\ workflows[triggers[t].workflow].model = model})

\* the worker's record when the receiver starts on the saved entity
EventStart(e, obj, created, before) ==
    LET me == [IdleWorker EXCEPT !.op = "event", !.ent = e, !.obj = obj,
                                 !.is_new = created, !.before = before,
                                 !.queue = ActiveTriggers(TicketModel)]
    IN  IF me.queue = <<>> THEN Respond(me, "200") ELSE [me EXCEPT !.pc = "trig"]

\* a ticket is created: its INSERT, then post_save(created=True)
EntityCreate(w, priority) ==
    /\ workers[w].pc = "idle"
    /\ Len(entities) < MaxEntities
    /\ LET obj == Ticket(priority, StatusNew)
       IN  /\ entities' = Append(entities, obj)
           /\ workers' = [workers EXCEPT ![w] = EventStart(Len(entities) + 1, obj, TRUE, VNone)]
    /\ UNCHANGED <<defVars, schedules, instances, history>>

\* a ticket is saved again: its UPDATE, then post_save(created=False)
EntityUpdate(w, e, priority) ==
    /\ workers[w].pc = "idle"
    /\ e \in Pks(entities)
    /\ LET obj == [entities[e] EXCEPT !.f.priority = priority]
       IN  /\ entities' = [entities EXCEPT ![e] = obj]
           /\ workers' = [workers EXCEPT ![w] = EventStart(e, obj, FALSE, entities[e])]
    /\ UNCHANGED <<defVars, schedules, instances, history>>

\* one turn of "for trigger in triggers": old_instance, should_trigger, get_or_create's get
TriggerStep(w) ==
    /\ workers[w].pc = "trig"
    /\ LET me == workers[w]
           tr == triggers[Head(me.queue)]
           old_instance == IF ~me.is_new /\ tr.type \in {"on_update", "on_field_change"}
                           THEN entities[me.ent] ELSE VNone
           r == should_trigger(tr.type, tr.conditions, me.obj, old_instance)
           found == Matching(instances, tr.workflow, TicketContentType, me.ent)
           asked == [me EXCEPT !.wf = tr.workflow,
                       !.row = NewInstance(tr.workflow, me.ent, StartedByOf(me.obj), "{}")]
       IN  workers' = [workers EXCEPT ![w] =
               IF r = "TypeError" THEN Respond(me, "500")
               ELSE IF r = "false"
               THEN IF Tail(me.queue) = <<>> THEN Respond([me EXCEPT !.queue = <<>>], "200")
                    ELSE [me EXCEPT !.queue = Tail(@)]
               ELSE IF Cardinality(found) > 1 THEN Respond(asked, "500")
               ELSE IF found # {} THEN AfterFound(asked, CHOOSE i \in found : TRUE)
               ELSE [asked EXCEPT !.pc = "create"]]
    /\ UNCHANGED <<defVars, schedules, entities, instances, history>>

-----------------------------------------------------------------------------
(* ScheduledWorkflow.run, called by run_now (user = request.user) or by    *)
(* the periodic task run_scheduled_workflows (user = None, pending rows).  *)

\* the days a recurring schedule moves its next_run by
Period(schedule_type) ==
    CASE schedule_type = "daily" -> 1
      [] schedule_type = "weekly" -> 7
      [] schedule_type = "monthly" -> 30
      [] OTHER -> 0

\* the rows the periodic tasks pick at the time now: run_scheduled_workflows ("tick")
\* and check_and_run_recurring_workflows ("recurring")
Due(s, via, now) ==
    CASE via = "tick" ->
            schedules[s].status = "pending" /\ schedules[s].scheduled_date <= now
      [] via = "recurring" ->
            /\ schedules[s].schedule_type \in {"daily", "weekly", "monthly"}
            /\ schedules[s].status = "pending"
            /\ schedules[s].next_run # NULL
            /\ schedules[s].next_run <= now
      [] OTHER -> FALSE

\* run() up to its first save: "self.status = 'running'; self.last_run =
\* timezone.now(); self.save()" on the copy the caller holds, written back as a whole row
RunStart(me, s, loaded, user, now) ==
    LET srow == [loaded EXCEPT !.status = "running", !.last_run = now]
    IN  [me EXCEPT !.pc = "sched_query", !.op = "run", !.sched = s, !.srow = srow,
                   !.wf = srow.workflow, !.seen = Len(instances),
                   !.row = NewInstance(srow.workflow, NULL, user, srow.data)]

\* ScheduledWorkflowViewSet.run_now: get_object() and run(request.user) up to its first save
ScheduleRunBegin(w, s, now) ==
    /\ workers[w].pc = "idle"
    /\ s \in Pks(schedules)
    /\ LET me == RunStart([IdleWorker EXCEPT !.via = "run_now"], s, schedules[s], w, now)
       IN  /\ schedules' = [schedules EXCEPT ![s] = me.srow]
           /\ workers' = [workers EXCEPT ![w] = me]
    /\ UNCHANGED <<defVars, entities, instances, history>>

\* the rows of a set of schedules in Meta.ordering = ['scheduled_date'], as loaded
RECURSIVE Loaded(_)
Loaded(S) ==
    IF S = {} THEN <<>>
    ELSE LET s == CHOOSE x \in S :
                      \A y \in S : \/ schedules[x].scheduled_date < schedules[y].scheduled_date
                                    \/ /\ schedules[x].scheduled_date = schedules[y].scheduled_date
                                       /\ x <= y
         IN  <<[id |-> s, row |-> schedules[s]]>> \o Loaded(S \ {s})

\* the rows a periodic task iterates over: the filter of run_scheduled_workflows, or
\* "list(daily_workflows) + list(weekly_workflows) + list(monthly_workflows)"
Batch(via, now) ==
    LET due(type) == {s \in Pks(schedules) :
                         Due(s, via, now) /\ schedules[s].schedule_type = type}
    IN  IF via = "tick" THEN Loaded({s \in Pks(schedules) : Due(s, via, now)})
        ELSE Loaded(due("daily")) \o Loaded(due("weekly")) \o Loaded(due("monthly"))

\* a periodic task starts: "now = timezone.now()" and the query for the due rows
TaskBegin(w, via, now) ==
    /\ workers[w].pc = "idle"
    /\ via \in {"tick", "recurring"}
    /\ LET me == [IdleWorker EXCEPT !.op = "run", !.via = via, !.now = now,
                                    !.batch = Batch(via, now)]
       IN  workers' = [workers EXCEPT ![w] =
               IF me.batch = <<>> THEN Respond(me, "200") ELSE [me EXCEPT !.pc = "task"]]
    /\ UNCHANGED <<defVars, schedules, entities, instances, history>>

\* one turn of "for scheduled_workflow in scheduled_workflows": run() up to its first save
TaskRun(w) ==
    /\ workers[w].pc = "task"
    /\ LET held == workers[w]
           next == Head(held.batch)
           me == RunStart([held EXCEPT !.batch = Tail(@)], next.id, next.row,
                          next.row.created_by, held.now)
       IN  /\ schedules' = [schedules EXCEPT ![next.id] = me.srow]
           /\ workers' = [workers EXCEPT ![w] = me]
    /\ UNCHANGED <<defVars, entities, instances, history>>

\* a task that ends at the first row whose run raises
AfterRunStopping(me, code) ==
    IF me.via = "run_now" \/ code = "500" THEN Respond(me, code)
    ELSE IF me.batch = <<>> THEN Respond(me, "200")
    ELSE [me EXCEPT !.pc = "task", !.queue = <<>>, !.inst = NULL, !.created = FALSE]

\* run() has returned or raised: the view answers, the task goes on with its next row
AfterRun(me, code) ==
    IF me.via = "run_now" THEN Respond(me, code)
    ELSE IF me.batch = <<>> THEN Respond(me, "200")
    ELSE [me EXCEPT !.pc = "task", !.queue = <<>>, !.inst = NULL, !.created = FALSE]

\* the columns model_class.objects.filter(**filters) accepts
TicketFields == DOMAIN Ticket(Low, StatusNew).f

\* the tickets model_class.objects.filter(**filters) selects
Selected(filters) ==
    {e \in Pks(entities) :
        \A k \in 1..Len(filters) : entities[e].f[filters[k].field] = filters[k].value}

\* a run that takes the first selected ticket only
ScheduleQueryFirst(w) ==
    /\ workers[w].pc = "sched_query"
    /\ LET me == workers[w]
           filters == me.srow.filters
           raises == \/ workflows[me.wf].model # TicketModel
                     \/ \E k \in 1..Len(filters) : filters[k].field \notin TicketFields
           objects == Descending(Selected(filters))
       IN  workers' = [workers EXCEPT ![w] =
               IF raises THEN [me EXCEPT !.pc = "sched_fail"]
               ELSE IF objects = <<>> THEN [me EXCEPT !.pc = "sched_finish"]
               ELSE [me EXCEPT !.pc = "get", !.queue = <<Head(objects)>>]]
    /\ UNCHANGED <<defVars, schedules, entities, instances, history>>

\* "model_class = ...; objects = model_class.objects.filter(**filters)", newest first
ScheduleQuery(w) ==
    /\ workers[w].pc = "sched_query"
    /\ LET me == workers[w]
           filters == me.srow.filters
           raises == \/ workflows[me.wf].model # TicketModel
                     \/ \E k \in 1..Len(filters) : filters[k].field \notin TicketFields
           objects == Descending({e \in Pks(entities) :
                          \A k \in 1..Len(filters) :
                              entities[e].f[filters[k].field] = filters[k].value})
       IN  workers' = [workers EXCEPT ![w] =
               IF raises THEN [me EXCEPT !.pc = "sched_fail"]
               ELSE IF objects = <<>> THEN [me EXCEPT !.pc = "sched_finish"]
               ELSE [me EXCEPT !.pc = "get", !.queue = objects]]
    /\ UNCHANGED <<defVars, schedules, entities, instances, history>>

\* one turn of "for obj in objects": get_or_create's get
ScheduleGet(w) ==
    /\ workers[w].pc = "get"
    /\ LET me == workers[w]
           found == Matching(instances, me.wf, TicketContentType, Head(me.queue))
       IN  workers' = [workers EXCEPT ![w] =
               IF Cardinality(found) > 1 THEN AfterRaise(me)
               ELSE IF found # {} THEN AfterFound(me, CHOOSE i \in found : TRUE)
               ELSE [me EXCEPT !.pc = "create"]]
    /\ UNCHANGED <<defVars, schedules, entities, instances, history>>

\* "self.status = 'completed'", next_run = last_run + 1 day, 1 week or 30 days for the
\* recurring types, "self.save()"
ScheduleFinish(w) ==
    /\ workers[w].pc = "sched_finish"
    /\ LET me == workers[w]
           srow == [me.srow EXCEPT
                       !.status = "completed",
                       !.next_run = IF Period(me.srow.schedule_type) > 0
                                    THEN me.srow.last_run + Period(me.srow.schedule_type)
                                    ELSE @]
       IN  /\ schedules' = [schedules EXCEPT ![me.sched] = srow]
           /\ workers' = [workers EXCEPT ![w] = AfterRun([me EXCEPT !.srow = srow], "200")]
    /\ UNCHANGED <<defVars, entities, instances, history>>

\* a run that puts the schedule back to pending when it raises
ScheduleFailRetrying(w) ==
    /\ workers[w].pc = "sched_fail"
    /\ LET me == workers[w]
           srow == [me.srow EXCEPT !.status = "pending"]
       IN  /\ schedules' = [schedules EXCEPT ![me.sched] = srow]
           /\ workers' = [workers EXCEPT ![w] = AfterRun([me EXCEPT !.srow = srow], "500")]
    /\ UNCHANGED <<defVars, entities, instances, history>>

\* "except Exception: self.status = 'failed'; self.save(); raise"
ScheduleFail(w) ==
    /\ workers[w].pc = "sched_fail"
    /\ LET me == workers[w]
           srow == [me.srow EXCEPT !.status = "failed"]
       IN  /\ schedules' = [schedules EXCEPT ![me.sched] = srow]
           /\ workers' = [workers EXCEPT ![w] = AfterRun([me EXCEPT !.srow = srow], "500")]
    /\ UNCHANGED <<defVars, entities, instances, history>>

-----------------------------------------------------------------------------
(* WorkflowInstanceViewSet.transition and WorkflowInstance.transition_to   *)

\* a get_available_transitions that ignores the row's current state
TransitionsOfWorkflow(row) ==
    {t \in Pks(transitions) : transitions[t].workflow = row.workflow}

\* WorkflowInstance.get_available_transitions on an in-memory row
get_available_transitions(row) ==
    IF row.current_state = NULL THEN {}
    ELSE {t \in Pks(transitions) : /\ transitions[t].workflow = row.workflow
                                   /\ transitions[t].from_state = row.current_state}

\* transition requests that may still append a WorkflowHistory row
Appending == {w \in Workers : workers[w].pc \in {"guard", "actions", "save", "history"}}

\* self.content_object: the bound entity, None when it does not exist
ContentObject(row) ==
    IF row.object_id \in Pks(entities) THEN entities[row.object_id] ELSE VNone

\* a view without "if transition not in instance.get_available_transitions()"
TransitionBeginUnchecked(w, i, t, notes) ==
    /\ workers[w].pc = "idle"
    /\ i \in Pks(instances)
    /\ LET row == instances[i]
           me == [IdleWorker EXCEPT !.op = "transition", !.inst = i, !.row = row,
                                    !.trans = t, !.notes = notes,
                                    !.seen = Len(HistoryOf(history, i))]
       IN  workers' = [workers EXCEPT ![w] =
               IF t = NULL THEN Respond(me, "400 required")
               ELSE IF t \notin Pks(transitions) THEN Respond(me, "404")
               ELSE [me EXCEPT !.pc = "guard"]]
    /\ UNCHANGED <<defVars, schedules, entities, instances, history>>

\* the view up to "if transition not in instance.get_available_transitions()"
TransitionBegin(w, i, t, notes) ==
    /\ workers[w].pc = "idle"
    /\ i \in Pks(instances)
    /\ LET row == instances[i]
           me == [IdleWorker EXCEPT !.op = "transition", !.inst = i, !.row = row,
                                    !.trans = t, !.notes = notes,
                                    !.seen = Len(HistoryOf(history, i))]
       IN  workers' = [workers EXCEPT ![w] =
               IF t = NULL THEN Respond(me, "400 required")
               ELSE IF t \notin Pks(transitions) THEN Respond(me, "404")
               ELSE IF t \notin get_available_transitions(row)
               THEN Respond(me, "400 not available")
               ELSE [me EXCEPT !.pc = "guard"]]
    /\ UNCHANGED <<defVars, schedules, entities, instances, history>>

\* a transition_to that goes on to the actions whatever can_transition returns
TransitionGuardUnchecked(w) ==
    /\ workers[w].pc = "guard"
    /\ LET me == workers[w]
           tr == transitions[me.trans]
           obj == ContentObject(me.row)
       IN  workers' = [workers EXCEPT ![w] =
               IF tr.actions = <<>> THEN [me EXCEPT !.pc = "save", !.obj = obj]
               ELSE [me EXCEPT !.pc = "actions", !.obj = obj, !.ai = 1]]
    /\ UNCHANGED <<defVars, schedules, entities, instances, history>>

\* "if not transition.can_transition(self.content_object): raise ValueError"
TransitionGuard(w) ==
    /\ workers[w].pc = "guard"
    /\ LET me == workers[w]
           tr == transitions[me.trans]
           obj == ContentObject(me.row)
           r == can_transition(tr.conditions, obj)
       IN  workers' = [workers EXCEPT ![w] =
               IF r = "false" THEN Respond(me, "400 conditions not met")
               ELSE IF r = "TypeError" THEN Respond(me, "500")
               ELSE IF tr.actions = <<>> THEN [me EXCEPT !.pc = "save", !.obj = obj]
               ELSE [me EXCEPT !.pc = "actions", !.obj = obj, !.ai = 1]]
    /\ UNCHANGED <<defVars, schedules, entities, instances, history>>

RECURSIVE UpdateField(_, _, _)
\* _update_field(target, path, value): raised = AttributeError from getattr; a None on
\* the way leaves the target as it is; only fields the target has are stored
UpdateField(target, path, value) ==
    IF target.t \notin {"obj", "dict"} THEN [raised |-> target.t # "none", v |-> target]
    ELSE IF Len(path) = 1
    THEN [raised |-> FALSE,
          v |-> IF target.t = "dict" \/ Head(path) \in DOMAIN target.f
                THEN [target EXCEPT !.f = [k \in DOMAIN target.f \cup {Head(path)} |->
                                             IF k = Head(path) THEN value ELSE target.f[k]]]
                ELSE target]
    ELSE IF Head(path) \in DOMAIN target.f
    THEN LET sub == UpdateField(target.f[Head(path)], Tail(path), value)
         IN  [raised |-> sub.raised,
              v |-> IF sub.raised THEN target ELSE [target EXCEPT !.f[Head(path)] = sub.v]]
    ELSE [raised |-> target.t = "obj", v |-> target]

\* whether handle_workflow_triggers raises on post_save(created=False) of entity e as
\* obj: a trigger's conditions raise TypeError, or a trigger fires for a workflow the
\* entity has no instance of while unique_together forbids a second row (the entity
\* is bound to the instance in transition, so no trigger creates a row here)
PostSaveRaises(e, obj) ==
    \E k \in 1..Len(ActiveTriggers(TicketModel)) :
        LET tr == triggers[ActiveTriggers(TicketModel)[k]]
            old_instance == IF tr.type \in {"on_update", "on_field_change"} THEN obj ELSE VNone
            r == should_trigger(tr.type, tr.conditions, obj, old_instance)
        IN  \/ r = "TypeError"
            \/ /\ r = "true"
               /\ Cardinality(Matching(instances, tr.workflow, TicketContentType, e)) # 1

\* what _execute_action does with action a on the entity held in memory
ActionOutcome(a, e, obj) ==
    IF a.type = "update_field" /\ a.field # <<>>
    THEN LET upd == IF obj = VNone THEN [raised |-> FALSE, v |-> VNone]
                    ELSE UpdateField(obj, a.field, a.value)
         IN  IF upd.raised THEN [raised |-> TRUE, saved |-> FALSE, obj |-> obj]
             ELSE IF obj = VNone THEN [raised |-> TRUE, saved |-> FALSE, obj |-> obj]
             ELSE [raised |-> PostSaveRaises(e, upd.v), saved |-> TRUE, obj |-> upd.v]
    ELSE IF a.type = "create_task"
    THEN [raised |-> ("project" \notin DOMAIN obj.f \/ obj.f.project = VNone),
          saved |-> FALSE, obj |-> obj]
    ELSE [raised |-> FALSE, saved |-> FALSE, obj |-> obj]

\* an action loop that swallows what _execute_action raises and goes on
ExecuteActionSwallowing(w) ==
    /\ workers[w].pc = "actions"
    /\ LET me == workers[w]
           tr == transitions[me.trans]
           out == ActionOutcome(tr.actions[me.ai], me.row.object_id, me.obj)
       IN  /\ entities' = IF out.saved
                          THEN [entities EXCEPT ![me.row.object_id] = out.obj]
                          ELSE entities
           /\ workers' = [workers EXCEPT ![w] =
                  IF me.ai = Len(tr.actions)
                  THEN [me EXCEPT !.pc = "save", !.obj = out.obj, !.ai = @ + 1]
                  ELSE [me EXCEPT !.obj = out.obj, !.ai = @ + 1]]
    /\ UNCHANGED <<defVars, schedules, instances, history>>

\* one turn of "for action in transition.actions: self._execute_action(action, user)"
ExecuteAction(w) ==
    /\ workers[w].pc = "actions"
    /\ LET me == workers[w]
           tr == transitions[me.trans]
           out == ActionOutcome(tr.actions[me.ai], me.row.object_id, me.obj)
       IN  /\ entities' = IF out.saved
                          THEN [entities EXCEPT ![me.row.object_id] = out.obj]
                          ELSE entities
           /\ workers' = [workers EXCEPT ![w] =
                  IF out.raised THEN Respond([me EXCEPT !.obj = out.obj], "500")
                  ELSE IF me.ai = Len(tr.actions)
                  THEN [me EXCEPT !.pc = "save", !.obj = out.obj, !.ai = @ + 1]
                  ELSE [me EXCEPT !.obj = out.obj, !.ai = @ + 1]]
    /\ UNCHANGED <<defVars, schedules, instances, history>>

\* a transition_to without "if self.current_state.is_final"
TransitionSaveWithoutFinal(w) ==
    /\ workers[w].pc = "save"
    /\ LET me == workers[w]
           row == [me.row EXCEPT !.current_state = transitions[me.trans].to_state]
       IN  /\ instances' = [instances EXCEPT ![me.inst] = row]
           /\ workers' = [workers EXCEPT ![w] = [me EXCEPT !.pc = "history", !.row = row]]
    /\ UNCHANGED <<defVars, schedules, entities, history>>

\* "self.current_state = transition.to_state; if self.current_state.is_final: ...; self.save()"
TransitionSave(w) ==
    /\ workers[w].pc = "save"
    /\ LET me == workers[w]
           to == transitions[me.trans].to_state
           row == IF states[to].is_final
                  THEN [me.row EXCEPT !.current_state = to, !.status = "completed",
                                      !.completed_at = Timestamp]
                  ELSE [me.row EXCEPT !.current_state = to]
       IN  /\ instances' = [instances EXCEPT ![me.inst] = row]
           /\ workers' = [workers EXCEPT ![w] = [me EXCEPT !.pc = "history", !.row = row]]
    /\ UNCHANGED <<defVars, schedules, entities, history>>

\* "WorkflowHistory.objects.create(...)"
TransitionHistory(w) ==
    /\ workers[w].pc = "history"
    /\ LET me == workers[w]
           tr == transitions[me.trans]
       IN  /\ history' = Append(history,
                  [workflow_instance |-> me.inst, from_state |-> tr.from_state,
                   to_state |-> tr.to_state, transition |-> me.trans,
                   triggered_by |-> w, notes |-> ""])
           /\ workers' = [workers EXCEPT ![w] = [me EXCEPT !.pc = "notes"]]
    /\ UNCHANGED <<defVars, schedules, entities, instances>>

\* the rows instance.history.filter(transition=, triggered_by=) matches
NotesCandidates(i, t, user) ==
    {h \in Pks(history) : /\ history[h].workflow_instance = i
                          /\ history[h].transition = t
                          /\ history[h].triggered_by = user}

\* "history = ....first(); if history: history.notes = notes; history.save()": the
\* latest matching row takes the request's notes ('' when the request has none)
TransitionNotes(w) ==
    /\ workers[w].pc = "notes"
    /\ LET me == workers[w]
           found == NotesCandidates(me.inst, me.trans, w)
       IN  /\ history' = IF found = {} THEN history
                         ELSE [history EXCEPT ![Head(Descending(found))].notes = me.notes]
           /\ workers' = [workers EXCEPT ![w] = Respond(me, "200")]
    /\ UNCHANGED <<defVars, schedules, entities, instances>>

\* WorkflowInstanceViewSet.cancel: "instance = self.get_object()"
CancelBegin(w, i) ==
    /\ workers[w].pc = "idle"
    /\ i \in Pks(instances)
    /\ workers' = [workers EXCEPT ![w] =
           [IdleWorker EXCEPT !.pc = "cancel_save", !.op = "cancel", !.inst = i,
                              !.row = instances[i]]]
    /\ UNCHANGED <<defVars, schedules, entities, instances, history>>

\* "instance.status = 'cancelled'; instance.save()"
CancelSave(w) ==
    /\ workers[w].pc = "cancel_save"
    /\ LET me == workers[w]
           row == [me.row EXCEPT !.status = "cancelled"]
       IN  /\ instances' = [instances EXCEPT ![me.inst] = row]
           /\ workers' = [workers EXCEPT ![w] = Respond([me EXCEPT !.row = row], "200")]
    /\ UNCHANGED <<defVars, schedules, entities, history>>

\* the process serving the request dies between two statements
Crash(w) ==
    /\ workers[w].pc \notin {"idle", "done"}
    /\ workers' = [workers EXCEPT ![w] = Respond(@, "crash")]
    /\ UNCHANGED <<defVars, schedules, entities, instances, history>>

-----------------------------------------------------------------------------
(* The definition store: State.save through the State endpoints            *)

StateNames == {"Initial", "Review"}

\* State.Meta.unique_together = ('workflow', 'name'), against the rows other than s
StateNameTaken(s, wf, name) ==
    \E k \in Pks(states) : k # s /\ states[k].workflow = wf /\ states[k].name = name

\* State requests that may still insert a row
CreatingState ==
    {w \in Workers : workers[w].pc \in {"state_demote", "state_save"}
                     /\ workers[w].state = NULL}

\* the serializer's part of a State create (s = NULL) or update: validation, then
\* the instance whose save() follows
StateSaveBegin(w, s, wf, name, is_initial) ==
    /\ workers[w].pc = "idle"
    /\ s = NULL \/ s \in Pks(states)
    /\ s = NULL => Len(states) + Cardinality(CreatingState) < MaxStates
    /\ LET strow == IF s = NULL
                    THEN [workflow |-> wf, name |-> name, is_initial |-> is_initial,
                          is_final |-> FALSE, order |-> 0]
                    ELSE [states[s] EXCEPT !.workflow = wf, !.name = name,
                                           !.is_initial = is_initial]
           me == [IdleWorker EXCEPT !.op = "state_save", !.state = s, !.strow = strow]
       IN  workers' = [workers EXCEPT ![w] =
               IF StateNameTaken(s, wf, name) THEN Respond(me, "400")
               ELSE IF is_initial THEN [me EXCEPT !.pc = "state_demote"]
               ELSE [me EXCEPT !.pc = "state_save"]]
    /\ UNCHANGED <<workflows, states, transitions, triggers, schedules, entities,
                   instances, history>>

\* a State.save that leaves the other initial states as they are
StateDemoteSkipped(w) ==
    /\ workers[w].pc = "state_demote"
    /\ workers' = [workers EXCEPT ![w] = [@ EXCEPT !.pc = "state_save"]]
    /\ UNCHANGED <<workflows, states, transitions, triggers, schedules, entities,
                   instances, history>>

\* "State.objects.filter(workflow=, is_initial=True).exclude(id=self.id).update(is_initial=False)"
StateDemote(w) ==
    /\ workers[w].pc = "state_demote"
    /\ LET me == workers[w]
       IN  /\ states' = [k \in Pks(states) |->
                  IF /\ states[k].workflow = me.strow.workflow
                     /\ states[k].is_initial
                     /\ k # me.state
                  THEN [states[k] EXCEPT !.is_initial = FALSE]
                  ELSE states[k]]
           /\ workers' = [workers EXCEPT ![w] = [me EXCEPT !.pc = "state_save"]]
    /\ UNCHANGED <<workflows, transitions, triggers, schedules, entities, instances, history>>

\* "super().save(*args, **kwargs)": the INSERT or UPDATE of the row
StateWrite(w) ==
    /\ workers[w].pc = "state_save"
    /\ LET me == workers[w]
       IN  IF StateNameTaken(me.state, me.strow.workflow, me.strow.name)
           THEN /\ workers' = [workers EXCEPT ![w] = Respond(me, "500")]
                /\ UNCHANGED states
           ELSE IF me.state = NULL
           THEN /\ states' = Append(states, me.strow)
                /\ workers' = [workers EXCEPT ![w] =
                       Respond([me EXCEPT !.state = Len(states) + 1], "201")]
           ELSE /\ states' = [states EXCEPT ![me.state] = me.strow]
                /\ workers' = [workers EXCEPT ![w] = Respond(me, "200")]
    /\ UNCHANGED <<workflows, transitions, triggers, schedules, entities, instances, history>>

-----------------------------------------------------------------------------
(* Specifications *)

DataValues == {"{}"}

InitDefinitions ==
    /\ workflows = WorkflowRows
    /\ states = StateRows
    /\ transitions = TransitionRows
    /\ triggers = TriggerRows

\* the definitions are in place, one ticket exists and nothing has been started
Init ==
    /\ InitDefinitions
    /\ schedules = ScheduleRows
    /\ entities = <<Ticket(Low, StatusNew)>>
    /\ instances = <<>>
    /\ history = <<>>
    /\ workers = [w \in Workers |-> IdleWorker]

\* an instance as a completed start leaves it
Started(wf, e, s, user) ==
    [NewInstance(wf, e, user, "{}") EXCEPT !.current_state = s]

\* a ticket of any priority, bound to a started instance of the first workflow
InitRunning ==
    /\ InitDefinitions
    /\ schedules = ScheduleRows
    /\ \E p \in Priorities : entities = <<Ticket(p, StatusNew)>>
    /\ instances = <<Started(1, 1, 1, "u1")>>
    /\ history = <<>>
    /\ workers = [w \in Workers |-> IdleWorker]

\* the steps that take a request
BeginStart(w) ==
    \E wf \in Pks(workflows), e \in 0..MaxEntities, data \in DataValues :
        StartBegin(w, wf, e, data)
BeginCreate(w) == \E p \in Priorities : EntityCreate(w, p)
BeginUpdate(w) == \E e \in Pks(entities), p \in Priorities : EntityUpdate(w, e, p)
BeginRun(w) ==
    \/ \E s \in Pks(schedules) : ScheduleRunBegin(w, s, Timestamp)
    \/ TaskBegin(w, "tick", Timestamp)
BeginTransition(w, Ids, Notes, cap) ==
    /\ Len(history) + Cardinality(Appending) < cap
    /\ \E i \in Pks(instances), t \in Ids, notes \in Notes : TransitionBegin(w, i, t, notes)
BeginCancel(w) == \E i \in Pks(instances) : CancelBegin(w, i)

\* the steps that continue a request of the start paths
StartStep(w) ==
    \/ GetOrCreateCreate(w)
    \/ SetInitialState(w)
    \/ TriggerStep(w)
    \/ TaskRun(w)
    \/ ScheduleQuery(w)
    \/ ScheduleGet(w)
    \/ ScheduleFinish(w)
    \/ ScheduleFail(w)

\* the steps that continue a transition or a cancellation
TransitionStep(w) ==
    \/ TransitionGuard(w)
    \/ ExecuteAction(w)
    \/ TransitionSave(w)
    \/ TransitionHistory(w)
    \/ TransitionNotes(w)
    \/ CancelSave(w)

Next ==
    \E w \in Workers :
        \/ BeginTransition(w, Pks(transitions), {""}, MaxRacing)
        \/ TransitionGuard(w)
        \/ ExecuteAction(w)
        \/ TransitionSave(w)
        \/ TransitionHistory(w)
        \/ TransitionNotes(w)
        \/ Return(w)
        \/ Crash(w)

\* concurrent transition and cancel requests on started instances, each a sequence of
\* separately committed statements that a failure may cut short
Spec == InitRunning /\ [][Next]_vars

\* no other worker is serving a request
Alone(w) == \A o \in Workers \ {w} : workers[o].pc = "idle"

NextSeq ==
    \E w \in Workers :
        \/ Alone(w) /\ BeginStart(w)
        \/ Alone(w) /\ BeginUpdate(w)
        \/ Alone(w) /\ BeginRun(w)
        \/ Alone(w) /\ BeginTransition(w, 0..(Len(transitions) + 1), {"", "ok"}, MaxHistory)
        \/ Alone(w) /\ BeginCancel(w)
        \/ StartStep(w)
        \/ TransitionStep(w)
        \/ Return(w)

\* one request at a time, each running to its response
SpecSeq == Init /\ [][NextSeq]_vars

\* two workflows as WorkflowSerializer.create leaves them: each with its 'Initial' state
InitDef ==
    /\ workflows = WorkflowRows
    /\ states = <<[NoState EXCEPT !.workflow = 1, !.name = "Initial", !.is_initial = TRUE],
                  [NoState EXCEPT !.workflow = 2, !.name = "Initial", !.is_initial = TRUE]>>
    /\ transitions = <<>>
    /\ triggers = <<>>
    /\ schedules = <<>>
    /\ entities = <<>>
    /\ instances = <<>>
    /\ history = <<>>
    /\ workers = [w \in Workers |-> IdleWorker]

BeginStateSave(w) ==
    \E s \in 0..Len(states), wf \in Pks(workflows), name \in StateNames,
       is_initial \in BOOLEAN :
        StateSaveBegin(w, s, wf, name, is_initial)

NextDef ==
    \E w \in Workers :
        \/ Alone(w) /\ BeginStateSave(w)
        \/ StateDemote(w)
        \/ StateWrite(w)
        \/ Return(w)

\* State creations and updates through the State endpoints, one request at a time
SpecDef == InitDef /\ [][NextDef]_vars

\* no request is being served
Quiescent == \A w \in Workers : workers[w].pc \in {"idle", "done"}

-----------------------------------------------------------------------------
(* Properties *)

\* worker w takes a step of its request
Steps(w) == workers'[w] # workers[w]

\* the rows of WorkflowHistory of instance i in the order of triggered_at
Path(i) == HistoryOf(history, i)

\* the request of w is at the guard of its transition and the guard is false on the
\* entity its instance is bound to
GuardFalse(w) ==
    /\ workers[w].pc = "guard"
    /\ can_transition(transitions[workers[w].trans].conditions,
                      ContentObject(workers[w].row)) = "false"

\* C1: when the guard of the requested transition evaluates to false on the bound
\* entity, transition_to ends the request there, the response (unless the process died)
\* is the 400 of "conditions not met", and no instance row (current_state, status,
\* completed_at) and no WorkflowHistory row is written
C1_GuardFalseRejects ==
    [][\A w \in Workers :
          GuardFalse(w) /\ Steps(w) =>
              /\ workers'[w].pc = "done"
              /\ workers'[w].res \in {"400 conditions not met", "crash"}
              /\ instances' = instances
              /\ history' = history]_vars

\* a request to escalate the ticket of low priority was rejected at the guard and its
\* instance is still at New, active, with nothing in its history
C1_Witness ==
    \E w \in Workers :
        /\ workers[w].pc = "done"
        /\ workers[w].res = "400 conditions not met"
        /\ workers[w].trans = 1
        /\ entities[1].f.priority = Low
        /\ instances[workers[w].inst].current_state = 1
        /\ instances[workers[w].inst].status = "active"
        /\ instances[workers[w].inst].completed_at = NULL
        /\ Path(workers[w].inst) = <<>>

\* C2 (as stated): once a manual start for (workflow, entity) of an existing entity has
\* returned, exactly one WorkflowInstance exists for that pair
C2_ExactlyOneInstance ==
    \A w \in Workers :
        (/\ workers[w].pc = "done"
         /\ workers[w].op = "start"
         /\ workers[w].res \notin {"400", "404"})
        => Cardinality(Matching(instances, workers[w].wf, TicketContentType,
                                workers[w].ent)) = 1

\* C3: between requests, the WorkflowHistory rows of every instance form a connected
\* path: the first row leaves the initial state of the workflow, every later row leaves
\* the state the row before it entered, and the last row enters the current_state
C3_ConnectedPath ==
    Quiescent =>
        \A i \in Pks(instances) :
            Path(i) # <<>> =>
                /\ Path(i)[1].from_state \in InitialStates(instances[i].workflow)
                /\ \A k \in 2..Len(Path(i)) :
                       Path(i)[k].from_state = Path(i)[k - 1].to_state
                /\ Path(i)[Len(Path(i))].to_state = instances[i].current_state

\* an instance has gone round the graph: New, Escalated, Resolved and back to New
C3_Witness ==
    /\ Quiescent
    /\ \E i \in Pks(instances) :
           /\ Len(Path(i)) = 3
           /\ Path(i)[3].to_state = Path(i)[1].from_state
           /\ instances[i].current_state = 1

C5_TerminalIsFrozen ==
    [][\A w \in Workers :
          (/\ workers[w].op = "transition"
           /\ workers[w].pc = "save"
           /\ Steps(w)
           /\ instances[workers[w].inst].status \in {"completed", "cancelled"})
          => instances'[workers[w].inst] = instances[workers[w].inst]]_vars

\* every workflow has at most one initial state
AtMostOneInitial == \A wf \in Pks(workflows) : Cardinality(InitialStates(wf)) <= 1

\* the step of State.save that writes a row with is_initial = true leaves that row the
\* only initial state of its workflow
InitialSaveWins ==
    \A w \in Workers :
        (/\ workers[w].pc = "state_save"
         /\ workers[w].strow.is_initial
         /\ Steps(w)
         /\ workers'[w].res \in {"200", "201"})
        => LET saved == IF workers[w].state = NULL THEN Len(states') ELSE workers[w].state
               mine == {s \in Pks(states') : /\ states'[s].workflow = workers[w].strow.workflow
                                             /\ states'[s].is_initial}
           IN  mine = {saved}

\* C6: after each step of any sequence of State creations and updates every workflow
\* has at most one state with is_initial = true, and a save with is_initial = true
\* leaves the saved state the only initial state of its workflow
C6_OneInitialState == []AtMostOneInitial /\ [][InitialSaveWins]_vars

\* a second state was created as initial in a workflow: it is the initial state and
\* the 'Initial' state the workflow began with is demoted
C6_Witness ==
    /\ Len(states) = 3
    /\ states[3].is_initial
    /\ ~states[states[3].workflow].is_initial
    /\ \E w \in Workers : workers[w].pc = "done" /\ workers[w].res = "201"

\* C7 (as stated): between requests, every instance of a workflow that has an initial
\* state has a current_state
C7_CurrentStateSet ==
    Quiescent =>
        \A i \in Pks(instances) :
            InitialStates(instances[i].workflow) # {} => instances[i].current_state # NULL

\* the request of w is in its action loop and the action it is about to execute raises
ActionRaises(w) ==
    /\ workers[w].pc = "actions"
    /\ ActionOutcome(transitions[workers[w].trans].actions[workers[w].ai],
                     workers[w].row.object_id, workers[w].obj).raised

\* C8: when an action of the transition raises, the request ends at that action (the
\* actions after it are never run), and no instance row and no WorkflowHistory row is
\* written: the instance keeps its current_state and status
C8_ActionErrorAborts ==
    [][\A w \in Workers :
          ActionRaises(w) /\ Steps(w) =>
              /\ workers'[w].pc = "done"
              /\ workers'[w].res \in {"500", "crash"}
              /\ workers'[w].ai = workers[w].ai
              /\ instances' = instances
              /\ history' = history]_vars

\* the second of the three actions of "hand over" has raised: the request ended with
\* a 500 at that action and the instance is still at Escalated, active, with the one
\* history row of its escalation
C8_Witness ==
    \E w \in Workers :
        /\ workers[w].pc = "done"
        /\ workers[w].res = "500"
        /\ workers[w].trans = 3
        /\ workers[w].ai = 2
        /\ instances[workers[w].inst].current_state = 2
        /\ instances[workers[w].inst].status = "active"
        /\ Len(Path(workers[w].inst)) = 1

\* two requests that loaded the same instance with the same history behind it, and so
\* the same current_state, have both succeeded with a transition from that state
BothSucceeded(a, b) ==
    /\ workers[a].pc = "done" /\ workers[b].pc = "done"
    /\ workers[a].res = "200" /\ workers[b].res = "200"
    /\ workers[a].op = "transition" /\ workers[b].op = "transition"
    /\ workers[a].inst = workers[b].inst
    /\ workers[a].seen = workers[b].seen
    /\ transitions[workers[a].trans].from_state = transitions[workers[b].trans].from_state

\* C9 (as stated): of two transition requests on the same instance that read the same
\* current_state at most one succeeds
C9_AtMostOneSucceeds ==
    \A a \in Workers : \A b \in Workers \ {a} : ~BothSucceeded(a, b)

\* C10 (as stated): between requests, the current_state of every instance is the
\* to_state of its last WorkflowHistory row (its initial state when it has none), and
\* an instance is completed only when that row entered a final state
C10_AtomicTransition ==
    Quiescent =>
        \A i \in Pks(instances) :
            /\ instances[i].current_state =
                   IF Path(i) = <<>>
                   THEN CHOOSE s \in FirstInitialStates(instances[i].workflow) : TRUE
                   ELSE Path(i)[Len(Path(i))].to_state
            /\ instances[i].status = "completed" =>
                   /\ Path(i) # <<>>
                   /\ states[Path(i)[Len(Path(i))].to_state].is_final

\* the request w takes names an existing transition that does not leave the
\* current_state of its instance or belongs to another workflow
Unavailable(w) ==
    /\ workers[w].pc = "idle"
    /\ workers'[w].op = "transition"
    /\ workers'[w].trans \in Pks(transitions)
    /\ LET row == instances[workers'[w].inst]
           tr == transitions[workers'[w].trans]
       IN  tr.workflow # row.workflow \/ tr.from_state # row.current_state

C12_CancelOnlyActive ==
    [][\A w \in Workers :
          /\ workers[w].op = "cancel"
          /\ workers[w].pc = "cancel_save"
          /\ instances[workers[w].inst].status # "active"
          /\ Steps(w)
          => instances'[workers[w].inst].status = instances[workers[w].inst].status]_vars

\* C14: uniqueness is per (workflow, entity): a manual start for a pair that has no
\* instance yet creates one, whatever instances of other workflows the entity has
C14_StartPerWorkflow ==
    [][\A w \in Workers :
          /\ workers[w].op = "start"
          /\ workers[w].pc = "create"
          /\ Matching(instances, workers[w].wf, TicketContentType, workers[w].ent) = {}
          /\ Steps(w)
          => /\ Matching(instances', workers[w].wf, TicketContentType, workers[w].ent) # {}
             /\ Len(instances') = Len(instances) + 1]_vars

-----------------------------------------------------------------------------
(* The lifecycle of a workflow definition and the three ways to start      *)
(* instances of it.                                                        *)

\* WorkflowViewSet.activate: "workflow.status = 'active'; workflow.save()"
WorkflowActivate(w, wf) ==
    /\ workers[w].pc = "idle"
    /\ wf \in Pks(workflows)
    /\ workflows' = [workflows EXCEPT ![wf].status = "active"]
    /\ workers' = [workers EXCEPT ![w] =
           Respond([IdleWorker EXCEPT !.op = "activate", !.wf = wf], "200")]
    /\ UNCHANGED <<states, transitions, triggers, schedules, entities, instances, history>>

\* WorkflowViewSet.deactivate: "workflow.status = 'inactive'; workflow.save()"
WorkflowDeactivate(w, wf) ==
    /\ workers[w].pc = "idle"
    /\ wf \in Pks(workflows)
    /\ workflows' = [workflows EXCEPT ![wf].status = "inactive"]
    /\ workers' = [workers EXCEPT ![w] =
           Respond([IdleWorker EXCEPT !.op = "deactivate", !.wf = wf], "200")]
    /\ UNCHANGED <<states, transitions, triggers, schedules, entities, instances, history>>

\* the second workflow is still a draft and may have lost its initial state; one ticket
InitStart ==
    /\ workflows = [WorkflowRows EXCEPT ![2].status = "draft"]
    /\ \E b \in BOOLEAN : states = [StateRows EXCEPT ![4].is_initial = b]
    /\ transitions = TransitionRows
    /\ triggers = TriggerRows
    /\ schedules = ScheduleRows
    /\ \E p \in Priorities : entities = <<Ticket(p, StatusNew)>>
    /\ instances = <<>>
    /\ history = <<>>
    /\ workers = [w \in Workers |-> IdleWorker]

NextStart ==
    \E w \in Workers :
        \/ Alone(w) /\ \E wf \in Pks(workflows) : WorkflowActivate(w, wf)
        \/ Alone(w) /\ \E wf \in Pks(workflows) : WorkflowDeactivate(w, wf)
        \/ Alone(w) /\ BeginStart(w)
        \/ Alone(w) /\ BeginUpdate(w)
        \/ Alone(w) /\ BeginRun(w)
        \/ StartStep(w)
        \/ Return(w)

\* workflows are activated and deactivated while instances are started by hand, by
\* triggers and by the scheduler, one request at a time
SpecStart == InitStart /\ [][NextStart]_vars

\* C13: no WorkflowInstance is created for a workflow that is not active, be it by a
\* manual start, by a trigger firing or by a scheduler run
C13_OnlyActiveWorkflowsStart ==
    [][Len(instances') > Len(instances) =>
          workflows[instances'[Len(instances')].workflow].status = "active"]_vars

\* C15: a manual start on a workflow that has no state with is_initial = true creates no
\* WorkflowInstance and does not answer with the instance
C15_NoInitialStateFails ==
    [][\A w \in Workers :
          /\ workers[w].op = "start"
          /\ workers[w].pc \in {"create", "init"}
          /\ InitialStates(workers[w].wf) = {}
          /\ Steps(w)
          => /\ instances' = instances
             /\ workers'[w].res # "201"]_vars

-----------------------------------------------------------------------------
(* Triggers of every type on the ticket model, switched on and off by an    *)
(* operator while tickets are created and saved.                           *)

\* WorkflowTriggerViewSet.activate: "trigger.is_active = True; trigger.save()"
TriggerActivate(w, t) ==
    /\ workers[w].pc = "idle"
    /\ t \in Pks(triggers)
    /\ triggers' = [triggers EXCEPT ![t].is_active = TRUE]
    /\ workers' = [workers EXCEPT ![w] =
           Respond([IdleWorker EXCEPT !.op = "trigger_on"], "200")]
    /\ UNCHANGED <<workflows, states, transitions, schedules, entities, instances, history>>

\* WorkflowTriggerViewSet.deactivate: "trigger.is_active = False; trigger.save()"
TriggerDeactivate(w, t) ==
    /\ workers[w].pc = "idle"
    /\ t \in Pks(triggers)
    /\ triggers' = [triggers EXCEPT ![t].is_active = FALSE]
    /\ workers' = [workers EXCEPT ![w] =
           Respond([IdleWorker EXCEPT !.op = "trigger_off"], "200")]
    /\ UNCHANGED <<workflows, states, transitions, schedules, entities, instances, history>>

\* the two triggers of the fixture and one of each remaining type used with post_save
AllTriggerRows ==
    TriggerRows \o <<
    [workflow |-> 1, name |-> "priority raised to urgent", type |-> "on_field_change",
     field_name |-> "priority", conditions |-> <<PriorityIsUrgent>>, is_active |-> TRUE],
    [workflow |-> 2, name |-> "nightly review", type |-> "scheduled",
     field_name |-> "", conditions |-> <<>>, is_active |-> TRUE] >>

\* every trigger is defined and active, no ticket exists yet
InitTrig ==
    /\ workflows = WorkflowRows
    /\ states = StateRows
    /\ transitions = TransitionRows
    /\ triggers = AllTriggerRows
    /\ schedules = <<>>
    /\ entities = <<>>
    /\ instances = <<>>
    /\ history = <<>>
    /\ workers = [w \in Workers |-> IdleWorker]

NextTrig ==
    \E w \in Workers :
        \/ Alone(w) /\ \E t \in Pks(triggers) : TriggerActivate(w, t)
        \/ Alone(w) /\ \E t \in Pks(triggers) : TriggerDeactivate(w, t)
        \/ Alone(w) /\ BeginCreate(w)
        \/ Alone(w) /\ BeginUpdate(w)
        \/ TriggerStep(w)
        \/ GetOrCreateCreate(w)
        \/ Return(w)

\* tickets are created and saved while triggers are switched on and off, one request
\* at a time
SpecTrig == InitTrig /\ [][NextTrig]_vars

\* the receiver run by worker w inserts an instance for the trigger it is looking at
Fires(w) ==
    /\ workers[w].op = "event"
    /\ workers[w].pc = "create"
    /\ Len(instances') = Len(instances) + 1

\* the trigger the receiver run by worker w is looking at
CurrentTrigger(w) == triggers[Head(workers[w].queue)]

\* C16: a trigger starts an instance only on the event its type names: on_create only
\* when the entity was created, on_update and on_field_change only when it was updated
C16_TypeMatchesEvent ==
    [][\A w \in Workers :
          Fires(w) =>
              /\ CurrentTrigger(w).type = "on_create" => workers[w].is_new
              /\ CurrentTrigger(w).type \in {"on_update", "on_field_change"}
                     => ~workers[w].is_new]_vars

\* C17: an on_field_change trigger starts an instance on an update only if the value of
\* its named field before the update differs from the value after it
C17_FieldChanged ==
    [][\A w \in Workers :
          Fires(w) /\ CurrentTrigger(w).type = "on_field_change" /\ ~workers[w].is_new
          => workers[w].before.f[CurrentTrigger(w).field_name]
                 # workers[w].obj.f[CurrentTrigger(w).field_name]]_vars

\* C18: a trigger of type scheduled never starts an instance in response to an entity
\* event
C18_ScheduledNotByEvents ==
    [][\A w \in Workers : Fires(w) => CurrentTrigger(w).type # "scheduled"]_vars

-----------------------------------------------------------------------------
(* The periodic tasks and the schedule endpoints over a batch of tickets.  *)

\* ScheduledWorkflowViewSet.activate: "scheduled_workflow.status = 'pending'; save()"
ScheduleActivate(w, s) ==
    /\ workers[w].pc = "idle"
    /\ s \in Pks(schedules)
    /\ schedules' = [schedules EXCEPT ![s].status = "pending"]
    /\ workers' = [workers EXCEPT ![w] =
           Respond([IdleWorker EXCEPT !.op = "schedule_on", !.sched = s], "200")]
    /\ UNCHANGED <<defVars, entities, instances, history>>

\* the days timezone.now() returns
Days == 1..MaxDay

\* the clock does not run backwards: now is not before any recorded last_run
NotBefore(now) == \A s \in Pks(schedules) : schedules[s].last_run <= now

PriorityFilter == [field |-> "priority", value |-> Urgent]

\* a once schedule over the urgent tickets and a recurring schedule over all tickets
BatchSchedules(recurring_type) == <<
    [workflow |-> 1, schedule_type |-> "once", status |-> "pending",
     scheduled_date |-> 1, last_run |-> NULL, next_run |-> NULL,
     filters |-> <<PriorityFilter>>, data |-> "seed", created_by |-> "u1"],
    [workflow |-> 2, schedule_type |-> recurring_type, status |-> "pending",
     scheduled_date |-> 2, last_run |-> NULL, next_run |-> NULL,
     filters |-> <<>>, data |-> "nightly", created_by |-> "u2"] >>

\* up to MaxTickets tickets of any priorities, two pending schedules, no instance yet
InitSched ==
    /\ InitDefinitions
    /\ \E t \in {"daily", "weekly", "monthly"} : schedules = BatchSchedules(t)
    /\ \E n \in 1..MaxTickets :
           \E p \in [1..n -> Priorities] : entities = [e \in 1..n |-> Ticket(p[e], StatusNew)]
    /\ instances = <<>>
    /\ history = <<>>
    /\ workers = [w \in Workers |-> IdleWorker]

BeginTask(w, via) == \E now \in Days : NotBefore(now) /\ TaskBegin(w, via, now)
BeginRunNow(w) ==
    \E s \in Pks(schedules), now \in Days : NotBefore(now) /\ ScheduleRunBegin(w, s, now)

NextSched ==
    \E w \in Workers :
        \/ Alone(w) /\ BeginTask(w, "tick")
        \/ Alone(w) /\ BeginTask(w, "recurring")
        \/ Alone(w) /\ BeginRunNow(w)
        \/ Alone(w) /\ \E s \in Pks(schedules) : ScheduleActivate(w, s)
        \/ TaskRun(w)
        \/ ScheduleQuery(w)
        \/ ScheduleGet(w)
        \/ GetOrCreateCreate(w)
        \/ SetInitialState(w)
        \/ ScheduleFinish(w)
        \/ ScheduleFail(w)
        \/ Return(w)

\* the two periodic tasks, run_now and activate on the schedules, one at a time
SpecSched == InitSched /\ [][NextSched]_vars

\* the instances bound to ticket e
InstancesOf(rows, e) ==
    {i \in Pks(rows) : rows[i].content_type = TicketContentType /\ rows[i].object_id = e}

\* worker w ends a run that run_scheduled_workflows began on a once schedule whose
\* filter selects tickets none of which had an instance when the run began
OnceTickEnds(w) ==
    /\ workers[w].op = "run"
    /\ workers[w].via = "tick"
    /\ workers[w].srow.schedule_type = "once"
    /\ workers[w].pc \in {"sched_finish", "sched_fail"}
    /\ Steps(w)
    /\ \A e \in Selected(workers[w].srow.filters) :
           \A i \in InstancesOf(instances, e) : i > workers[w].seen

\* C19: one tick on a pending, due once schedule whose filter selects n tickets without
\* instances leaves exactly one instance per selected ticket (n in all), each of the
\* schedule's workflow and seeded with the schedule's data, and the schedule completed
C19_OnceTickStartsEach ==
    [][\A w \in Workers :
          OnceTickEnds(w) =>
              LET me == workers[w]
                  sel == Selected(me.srow.filters)
              IN  /\ schedules'[me.sched].status = "completed"
                  /\ Len(instances') = me.seen + Cardinality(sel)
                  /\ \A e \in sel :
                         /\ Cardinality(InstancesOf(instances', e)) = 1
                         /\ \A i \in InstancesOf(instances', e) :
                                /\ instances'[i].workflow = me.srow.workflow
                                /\ instances'[i].data = me.srow.data]_vars

\* the tick has run the once schedule over two or more urgent tickets that had no
\* instance: the schedule is completed and each of them has its seeded instance
C19_Witness ==
    \E w \in Workers :
        /\ workers[w].pc = "done"
        /\ workers[w].op = "run"
        /\ workers[w].via = "tick"
        /\ workers[w].sched # NULL
        /\ workers[w].seen = 0
        /\ schedules[workers[w].sched].schedule_type = "once"
        /\ schedules[workers[w].sched].status = "completed"
        /\ Cardinality(Selected(schedules[workers[w].sched].filters)) >= 2
        /\ Len(instances) = Cardinality(Selected(schedules[workers[w].sched].filters))
        /\ \A i \in Pks(instances) : instances[i].data = "seed"

\* C20: a successful run of a daily, weekly or monthly schedule moves next_run to
\* last_run + 1, 7 or 30 days and puts the schedule back to pending; only a once
\* schedule ends in completed
C20_RecurringBackToPending ==
    [][\A w \in Workers :
          /\ workers[w].pc = "sched_finish"
          /\ Steps(w)
          /\ workers[w].srow.schedule_type \in {"daily", "weekly", "monthly"}
          => /\ schedules'[workers[w].sched].next_run
                    = workers[w].srow.last_run + Period(workers[w].srow.schedule_type)
             /\ schedules'[workers[w].sched].status = "pending"]_vars

\* worker w takes a request that an operator sends for a schedule: activate or run_now
OperatorActs(w) ==
    /\ workers[w].pc = "idle"
    /\ \/ workers'[w].op = "schedule_on"
       \/ workers'[w].op = "run" /\ workers'[w].via = "run_now"

\* C21: a run that raises leaves the schedule failed with the next_run it had, and a
\* failed schedule is not touched again by the periodic tasks: only an operator's
\* activate or run_now changes it
C21_FailedUntilOperator ==
    [][/\ \A w \in Workers :
              workers[w].pc = "sched_fail" /\ Steps(w) =>
                  /\ schedules'[workers[w].sched].status = "failed"
                  /\ schedules'[workers[w].sched].next_run
                         = schedules[workers[w].sched].next_run
       /\ \A s \in Pks(schedules) :
              schedules[s].status = "failed" /\ schedules'[s] # schedules[s] =>
                  \E w \in Workers : OperatorActs(w)]_vars

\* the recurring schedule failed when it was due, its next_run is still unset, and a
\* later tick found nothing to run
C21_Witness ==
    \E w \in Workers, s \in Pks(schedules) :
        /\ workers[w].pc = "done"
        /\ workers[w].op = "run"
        /\ workers[w].via = "tick"
        /\ workers[w].sched = NULL
        /\ schedules[s].status = "failed"
        /\ schedules[s].schedule_type # "once"
        /\ schedules[s].scheduled_date <= schedules[s].last_run
        /\ schedules[s].next_run = NULL

\* C22: in a periodic task a row whose run raises is recorded as failed and the task
\* goes on: the rows it still holds are the rows it selected, and it ends normally after
\* the last of them
C22_FailedRowDoesNotStopTick ==
    [][\A w \in Workers :
          /\ workers[w].pc = "sched_fail"
          /\ workers[w].via \in {"tick", "recurring"}
          /\ Steps(w)
          => /\ schedules'[workers[w].sched].status = "failed"
             /\ IF workers[w].batch = <<>>
                THEN workers'[w].pc = "done" /\ workers'[w].res = "200"
                ELSE workers'[w].pc = "task" /\ workers'[w].batch = workers[w].batch]_vars

\* one tick selected both schedules: the run of the first raised and left it failed, the
\* second was run all the same and is completed
C22_Witness ==
    \E w \in Workers :
        /\ workers[w].pc = "done"
        /\ workers[w].op = "run"
        /\ workers[w].via = "tick"
        /\ workers[w].sched = 2
        /\ schedules[1].status = "failed"
        /\ schedules[2].status = "completed"
        /\ schedules[1].last_run = schedules[2].last_run

-----------------------------------------------------------------------------
(* Two scheduler workers at once: periodic tasks and run_now on one row.   *)

\* one pending once schedule that is due, one ticket, free or bound to the other workflow
InitTick ==
    /\ InitDefinitions
    /\ schedules = ScheduleRows
    /\ entities = <<Ticket(Low, StatusNew)>>
    /\ instances \in {<<>>, <<Started(2, 1, 4, "u1")>>}
    /\ history = <<>>
    /\ workers = [w \in Workers |-> IdleWorker]

NextTick ==
    \E w \in Workers :
        \/ TaskBegin(w, "tick", Timestamp)
        \/ \E s \in Pks(schedules) : ScheduleRunBegin(w, s, Timestamp)
        \/ TaskRun(w)
        \/ ScheduleQuery(w)
        \/ ScheduleGet(w)
        \/ GetOrCreateCreate(w)
        \/ SetInitialState(w)
        \/ ScheduleFinish(w)
        \/ ScheduleFail(w)
        \/ Return(w)

\* ticks and run_now requests served by two workers at the same time
SpecTick == InitTick /\ [][NextTick]_vars

\* worker w is inside run() for schedule s, which it began as a periodic task
RunningTick(w, s) ==
    /\ workers[w].op = "run"
    /\ workers[w].via = "tick"
    /\ workers[w].sched = s
    /\ workers[w].pc \in {"sched_query", "get", "create", "init", "sched_finish", "sched_fail"}

\* C23: a row that two ticks both selected as pending and due is claimed by one of them:
\* the two workers are never inside run() for the same row
C23_RowRunByOneWorker ==
    \A a \in Workers : \A b \in Workers \ {a} : \A s \in Pks(schedules) :
        ~(RunningTick(a, s) /\ RunningTick(b, s))

\* the parent container of the last segment of path cannot be reached from obj: a
\* segment before the last is a missing attribute or leads to a null value
ParentUnresolved(obj, path) ==
    LET parent == GetFieldValue(obj, SubSeq(path, 1, Len(path) - 1))
    IN  parent.raised \/ parent.v = VNone

\* the action worker w is about to execute
CurrentAction(w) == transitions[workers[w].trans].actions[workers[w].ai]

\* C24: an update_field action whose field path cannot be resolved to a parent container
\* makes the transition request fail, with no instance row and no history row written;
\* the transition is never carried on with the field update skipped
C24_UnresolvedUpdateFails ==
    [][\A w \in Workers :
          /\ workers[w].pc = "actions"
          /\ Steps(w)
          /\ CurrentAction(w).type = "update_field"
          /\ CurrentAction(w).field # <<>>
          /\ ParentUnresolved(workers[w].obj, CurrentAction(w).field)
          => /\ workers'[w].pc = "done"
             /\ workers'[w].res = "500"
             /\ instances' = instances
             /\ history' = history]_vars

-----------------------------------------------------------------------------
(* The condition evaluator on its own: condition lists over entity          *)
(* snapshots with present, null and missing fields.                        *)

Operators == {"equals", "not_equals", "contains", "not_contains", "greater_than",
              "less_than", "greater_equal", "less_equal", "is_empty", "is_not_empty"}
OrdinalOperators == {"greater_than", "less_than", "greater_equal", "less_equal"}

\* field paths: attributes that exist, a path through the nullable contact, a key of
\* the JSON field meta, and a path through an attribute the model does not have
EvalPaths == {<<"priority">>, <<"score">>, <<"contact", "name">>, <<"meta", "level">>,
              <<"owner", "name">>}
EvalValues == {Urgent, VInt(3)}

\* entity snapshots: score and contact may be null, meta may lack the key
EvalObjects ==
    {VObj([priority |-> p, score |-> s, contact |-> c, meta |-> m]) :
        p \in Priorities, s \in {VInt(2), VNone},
        c \in {VNone, VObj([name |-> Low])},
        m \in {VDict([level |-> VInt(4)]), VDict(<<>>)}}

EvalConditions ==
    {[field |-> p, operator |-> o, value |-> v] :
        p \in EvalPaths, o \in Operators, v \in EvalValues}

\* the empty list, every single condition, and every condition before and after one
\* that depends on the priority alone
EvalLists ==
    {<<>>} \cup {<<c>> : c \in EvalConditions}
           \cup {<<c, PriorityIsUrgent>> : c \in EvalConditions}
           \cup {<<PriorityIsUrgent, c>> : c \in EvalConditions}

\* one transition and one trigger that carry the condition list, one entity
InitEval ==
    /\ workflows = WorkflowRows
    /\ states = StateRows
    /\ \E cs \in EvalLists :
           /\ transitions = <<[TransitionRows[1] EXCEPT !.conditions = cs]>>
           /\ triggers = <<[TriggerRows[1] EXCEPT !.conditions = cs]>>
    /\ \E obj \in EvalObjects : entities = <<obj>>
    /\ schedules = <<>>
    /\ instances = <<>>
    /\ history = <<>>
    /\ workers = [w \in Workers |-> IdleWorker]

\* transition.can_transition(self.content_object)
EvalGuard(w, t, e) ==
    /\ workers[w].pc = "idle"
    /\ t \in Pks(transitions)
    /\ e \in Pks(entities)
    /\ workers' = [workers EXCEPT ![w] =
           Respond([IdleWorker EXCEPT !.op = "can_transition", !.trans = t, !.ent = e],
                   can_transition(transitions[t].conditions, entities[e]))]
    /\ UNCHANGED <<defVars, schedules, entities, instances, history>>

\* trigger.should_trigger(instance), without an old snapshot
EvalTrigger(w, t, e) ==
    /\ workers[w].pc = "idle"
    /\ t \in Pks(triggers)
    /\ e \in Pks(entities)
    /\ workers' = [workers EXCEPT ![w] =
           Respond([IdleWorker EXCEPT !.op = "should_trigger", !.trans = t, !.ent = e],
                   should_trigger(triggers[t].type, triggers[t].conditions,
                                  entities[e], VNone))]
    /\ UNCHANGED <<defVars, schedules, entities, instances, history>>

NextEval ==
    \E w \in Workers :
        \/ Alone(w) /\ \E t \in Pks(transitions), e \in Pks(entities) : EvalGuard(w, t, e)
        \/ Alone(w) /\ \E t \in Pks(triggers), e \in Pks(entities) : EvalTrigger(w, t, e)
        \/ Return(w)

\* the two evaluators applied to condition lists and entity snapshots
SpecEval == InitEval /\ [][NextEval]_vars

RECURSIVE Unreachable(_, _)
\* the path meets a missing key, a missing attribute or a null value before its last
\* segment is read
Unreachable(value, path) ==
    IF path = <<>> THEN FALSE
    ELSE IF value.t \notin {"obj", "dict"} THEN TRUE
    ELSE IF Head(path) \notin DOMAIN value.f THEN TRUE
    ELSE IF value.f[Head(path)] = VNone THEN Len(path) > 1
    ELSE Unreachable(value.f[Head(path)], Tail(path))

\* the condition list worker w has evaluated and the entity it evaluated it on
Evaluated(w) ==
    IF workers[w].op = "can_transition" THEN transitions[workers[w].trans].conditions
    ELSE triggers[workers[w].trans].conditions
HasEvaluated(w) ==
    workers[w].pc = "done" /\ workers[w].op \in {"can_transition", "should_trigger"}

\* the answer of the evaluator of worker w for the one condition c
Single(w, c) ==
    IF workers[w].op = "can_transition"
    THEN can_transition(<<c>>, entities[workers[w].ent])
    ELSE should_trigger(triggers[workers[w].trans].type, <<c>>,
                        entities[workers[w].ent], VNone)

\* C25: the evaluator answers true exactly when every condition of the list holds, a
\* condition on a field the path cannot reach holding for no operator; the empty list
\* is true
C25_FailClosedAnd ==
    \A w \in Workers :
        HasEvaluated(w) =>
            LET cs == Evaluated(w)
            IN  /\ cs = <<>> => workers[w].res = "true"
                /\ workers[w].res = "true"
                       <=> \A k \in 1..Len(cs) : Single(w, cs[k]) = "true"
                /\ \A k \in 1..Len(cs) :
                       Unreachable(entities[workers[w].ent], cs[k].field)
                           => workers[w].res # "true"

\* C26: an ordinal operator on a field value that cannot be compared with the
\* condition's value makes the evaluator answer false; nothing is raised to the caller
C26_MismatchIsFalse ==
    \A w \in Workers :
        HasEvaluated(w) /\ Evaluated(w) # <<>> =>
            LET c == Evaluated(w)[1]
                got == GetFieldValue(entities[workers[w].ent], c.field)
            IN  /\ c.operator \in OrdinalOperators
                /\ ~got.raised
                /\ ~Comparable(got.v, c.value)
                => workers[w].res = "false"

-----------------------------------------------------------------------------
(* The Transition endpoints: TransitionViewSet is a plain ModelViewSet over *)
(* TransitionSerializer, a ModelSerializer with no validate method.         *)

\* what the ModelSerializer checks: the three foreign keys name existing rows, and
\* unique_together = ('workflow', 'name') among the other transitions
TransitionValid(t, wf, name, from_state, to_state) ==
    /\ wf \in Pks(workflows)
    /\ from_state \in Pks(states)
    /\ to_state \in Pks(states)
    /\ \A o \in Pks(transitions) \ {t} :
           ~(transitions[o].workflow = wf /\ transitions[o].name = name)

\* POST /transitions/: is_valid(), then the INSERT
TransitionCreate(w, wf, name, from_state, to_state) ==
    /\ workers[w].pc = "idle"
    /\ Len(transitions) < MaxTransitions
    /\ LET me == [IdleWorker EXCEPT !.op = "transition_create", !.wf = wf]
           row == [workflow |-> wf, name |-> name, from_state |-> from_state,
                   to_state |-> to_state, conditions |-> <<>>, actions |-> <<>>,
                   order |-> 0]
       IN  IF TransitionValid(NULL, wf, name, from_state, to_state)
           THEN /\ transitions' = Append(transitions, row)
                /\ workers' = [workers EXCEPT ![w] =
                       Respond([me EXCEPT !.trans = Len(transitions) + 1], "201")]
           ELSE /\ transitions' = transitions
                /\ workers' = [workers EXCEPT ![w] = Respond(me, "400")]
    /\ UNCHANGED <<workflows, states, triggers, schedules, entities, instances, history>>

\* PATCH /transitions/t/ with both endpoints: get_object(), is_valid(), then the UPDATE
TransitionUpdate(w, t, from_state, to_state) ==
    /\ workers[w].pc = "idle"
    /\ LET me == [IdleWorker EXCEPT !.op = "transition_update", !.trans = t]
       IN  IF t \notin Pks(transitions)
           THEN /\ transitions' = transitions
                /\ workers' = [workers EXCEPT ![w] = Respond(me, "404")]
           ELSE IF TransitionValid(t, transitions[t].workflow, transitions[t].name,
                                   from_state, to_state)
           THEN /\ transitions' = [transitions EXCEPT ![t].from_state = from_state,
                                                      ![t].to_state = to_state]
                /\ workers' = [workers EXCEPT ![w] =
                       Respond([me EXCEPT !.wf = transitions[t].workflow], "200")]
           ELSE /\ transitions' = transitions
                /\ workers' = [workers EXCEPT ![w] = Respond(me, "400")]
    /\ UNCHANGED <<workflows, states, triggers, schedules, entities, instances, history>>

TransitionNames == {"escalate", "skip"}

\* a small definition: New and Escalated of the first workflow with "escalate" between
\* them, Open of the second workflow
GraphStates == <<StateRows[1], StateRows[2], StateRows[4]>>
GraphTransitions == <<TransitionRows[1]>>

InitGraph ==
    /\ workflows = WorkflowRows
    /\ states = GraphStates
    /\ transitions = GraphTransitions
    /\ triggers = <<>>
    /\ schedules = <<>>
    /\ entities = <<>>
    /\ instances = <<>>
    /\ history = <<>>
    /\ workers = [w \in Workers |-> IdleWorker]

BeginTransitionCreate(w) ==
    \E wf \in 0..Len(workflows), name \in TransitionNames,
       from_state \in 0..Len(states), to_state \in Pks(states) :
        TransitionCreate(w, wf, name, from_state, to_state)
BeginTransitionUpdate(w) ==
    \E t \in 0..Len(transitions), from_state \in Pks(states), to_state \in 0..Len(states) :
        TransitionUpdate(w, t, from_state, to_state)

NextGraph ==
    \E w \in Workers :
        \/ Alone(w) /\ BeginTransitionCreate(w)
        \/ Alone(w) /\ BeginTransitionUpdate(w)
        \/ Return(w)

\* transitions are created and updated through the API, one request at a time
SpecGraph == InitGraph /\ [][NextGraph]_vars

\* both endpoints of transition t are states of the transition's workflow
EndpointsOwned(t) ==
    /\ states[transitions[t].from_state].workflow = transitions[t].workflow
    /\ states[transitions[t].to_state].workflow = transitions[t].workflow

\* C27: a Transition whose from_state or to_state belongs to another workflow is never
\* stored: both endpoints of every stored transition belong to the transition's workflow
C27_EndpointsInWorkflow == \A t \in Pks(transitions) : EndpointsOwned(t)

-----------------------------------------------------------------------------
(* Workflow.clone, called by WorkflowViewSet.clone *)

\* the rows of table that belong to workflow wf in Meta.ordering = ['workflow', 'order'],
\* each with its primary key
RECURSIVE OrderedOf(_, _, _)
OrderedOf(table, wf, S) ==
    LET own == {k \in S : table[k].workflow = wf}
    IN  IF own = {} THEN <<>>
        ELSE LET k == CHOOSE x \in own : \A y \in own :
                          \/ table[x].order < table[y].order
                          \/ table[x].order = table[y].order /\ x <= y
             IN  <<[id |-> k, row |-> table[k]]>> \o OrderedOf(table, wf, S \ {k})

\* state_mapping: the copy made of state s, NULL for a KeyError
RECURSIVE Mapped(_, _)
Mapped(mapping, s) ==
    IF mapping = <<>> THEN NULL
    ELSE IF Head(mapping).id = s THEN Head(mapping).new
    ELSE Mapped(Tail(mapping), s)

\* "self.name (Copy)" unless the request names the copy
CloneName(name, source) == IF name = "" THEN source \o " (Copy)" ELSE name

\* where clone goes once the states are copied: "for transition in self.transitions.all()"
CloneTransitionsOf(me) ==
    LET loaded == OrderedOf(transitions, me.wf, Pks(transitions))
    IN  IF loaded = <<>> THEN Respond(me, "201")
        ELSE [me EXCEPT !.pc = "clone_transitions", !.batch = loaded]

\* get_object(), "new_workflow = Workflow.objects.create(... status='draft' ...)" and
\* "for state in self.states.all()"
CloneBegin(w, wf, name) ==
    /\ workers[w].pc = "idle"
    /\ Len(workflows) < MaxWorkflows
    /\ LET me == [IdleWorker EXCEPT !.op = "clone", !.wf = wf]
       IN  IF wf \notin Pks(workflows)
           THEN /\ workflows' = workflows
                /\ workers' = [workers EXCEPT ![w] = Respond(me, "404")]
           ELSE LET loaded == OrderedOf(states, wf, Pks(states))
                    mine == [me EXCEPT !.clone = Len(workflows) + 1]
                IN  /\ workflows' = Append(workflows,
                           [name |-> CloneName(name, workflows[wf].name),
                            status |-> "draft", model |-> workflows[wf].model])
                    /\ workers' = [workers EXCEPT ![w] =
                           IF loaded = <<>> THEN CloneTransitionsOf(mine)
                           ELSE [mine EXCEPT !.pc = "clone_states", !.batch = loaded]]
    /\ UNCHANGED <<states, transitions, triggers, schedules, entities, instances, history>>

\* the copy of state row for the new workflow, written by State.save: the other initial
\* states of the new workflow are demoted when the copy is initial, then the INSERT
CloneStateWrite(table, row, clone) ==
    Append([k \in Pks(table) |->
                IF row.is_initial /\ table[k].workflow = clone /\ table[k].is_initial
                THEN [table[k] EXCEPT !.is_initial = FALSE]
                ELSE table[k]],
           [row EXCEPT !.workflow = clone])

\* "new_state = State.objects.create(workflow=new_workflow, ...)" and
\* "state_mapping[state.id] = new_state"
CloneState(w) ==
    /\ workers[w].pc = "clone_states"
    /\ LET me == workers[w]
           state == Head(me.batch)
           rest == [me EXCEPT !.batch = Tail(me.batch),
                              !.mapping = Append(me.mapping,
                                  [id |-> state.id, new |-> Len(states) + 1])]
       IN  /\ states' = CloneStateWrite(states, state.row, me.clone)
           /\ workers' = [workers EXCEPT ![w] =
                  IF rest.batch = <<>> THEN CloneTransitionsOf(rest)
                  ELSE rest]
    /\ UNCHANGED <<workflows, transitions, triggers, schedules, entities, instances, history>>

\* a clone that keeps the endpoints of the source
CloneTransitionSameEndpoints(w) ==
    /\ workers[w].pc = "clone_transitions"
    /\ LET me == workers[w]
           transition == Head(me.batch).row
           rest == [me EXCEPT !.batch = Tail(me.batch)]
       IN  /\ transitions' = Append(transitions, [transition EXCEPT !.workflow = me.clone])
           /\ workers' = [workers EXCEPT ![w] =
                  IF rest.batch = <<>> THEN Respond(rest, "201") ELSE rest]
    /\ UNCHANGED <<workflows, states, triggers, schedules, entities, instances, history>>

\* "Transition.objects.create(workflow=new_workflow, from_state=state_mapping[...],
\* to_state=state_mapping[...], ...)"; a KeyError leaves clone and the view
CloneTransition(w) ==
    /\ workers[w].pc = "clone_transitions"
    /\ LET me == workers[w]
           transition == Head(me.batch).row
           from_state == Mapped(me.mapping, transition.from_state)
           to_state == Mapped(me.mapping, transition.to_state)
           rest == [me EXCEPT !.batch = Tail(me.batch)]
       IN  IF from_state = NULL \/ to_state = NULL
           THEN /\ transitions' = transitions
                /\ workers' = [workers EXCEPT ![w] = Respond(me, "500")]
           ELSE /\ transitions' = Append(transitions,
                       [transition EXCEPT !.workflow = me.clone,
                                          !.from_state = from_state,
                                          !.to_state = to_state])
                /\ workers' = [workers EXCEPT ![w] =
                       IF rest.batch = <<>> THEN Respond(rest, "201") ELSE rest]
    /\ UNCHANGED <<workflows, states, triggers, schedules, entities, instances, history>>

\* the request names no copy
CloneNames == {""}

\* the small definition with an urgent ticket that was started in the first workflow
\* and escalated
InitClone ==
    /\ workflows = WorkflowRows
    /\ states = GraphStates
    /\ transitions = GraphTransitions
    /\ triggers = <<>>
    /\ schedules = <<>>
    /\ entities = <<Ticket(Urgent, InProgress)>>
    /\ instances = <<Started(1, 1, 2, "u1")>>
    /\ history = <<[workflow_instance |-> 1, from_state |-> 1, to_state |-> 2,
                    transition |-> 1, triggered_by |-> "u1", notes |-> ""]>>
    /\ workers = [w \in Workers |-> IdleWorker]

BeginClone(w) ==
    \E wf \in 0..Len(workflows), name \in CloneNames : CloneBegin(w, wf, name)

NextClone ==
    \E w \in Workers :
        \/ Alone(w) /\ BeginTransitionCreate(w)
        \/ Alone(w) /\ BeginClone(w)
        \/ CloneState(w)
        \/ CloneTransition(w)
        \/ Return(w)

\* workflows are cloned, and transitions created, one request at a time
SpecClone == InitClone /\ [][NextClone]_vars

\* the transitions of workflow wf all start and end in states of wf
WellFormed(wf) ==
    \A t \in Pks(transitions) : transitions[t].workflow = wf => EndpointsOwned(t)

\* the copy of source state s among the states of the clone: the one at the same place
CopyOf(wf, clone, s) ==
    LET own == OrderedOf(states, wf, Pks(states))
        new == OrderedOf(states, clone, Pks(states))
        at == {i \in 1..Len(own) : own[i].id = s}
    IN  IF at = {} \/ Len(new) # Len(own) THEN NULL
        ELSE new[CHOOSE i \in at : TRUE].id

\* the states and transitions of clone are those of wf, endpoints mapped to the copies
IsomorphicCopy(wf, clone) ==
    LET own == OrderedOf(states, wf, Pks(states))
        new == OrderedOf(states, clone, Pks(states))
        owntr == OrderedOf(transitions, wf, Pks(transitions))
        newtr == OrderedOf(transitions, clone, Pks(transitions))
    IN  /\ Len(new) = Len(own)
        /\ \A i \in 1..Len(own) : new[i].row = [own[i].row EXCEPT !.workflow = clone]
        /\ Len(newtr) = Len(owntr)
        /\ \A i \in 1..Len(owntr) :
               newtr[i].row = [owntr[i].row EXCEPT
                                  !.workflow = clone,
                                  !.from_state = CopyOf(wf, clone, owntr[i].row.from_state),
                                  !.to_state = CopyOf(wf, clone, owntr[i].row.to_state)]
        /\ \A t \in Pks(transitions) : transitions[t].workflow = clone => EndpointsOwned(t)

\* no instance runs in workflow wf and no history row names one of its states or
\* transitions
NothingRuns(wf) ==
    /\ \A i \in Pks(instances) : instances[i].workflow # wf
    /\ \A h \in Pks(history) :
           /\ history[h].from_state # NULL => states[history[h].from_state].workflow # wf
           /\ states[history[h].to_state].workflow # wf
           /\ history[h].transition # NULL =>
                  transitions[history[h].transition].workflow # wf

\* worker w has finished a clone of a workflow with well-formed transitions
Cloned(w) ==
    /\ workers[w].pc = "done"
    /\ workers[w].op = "clone"
    /\ workers[w].wf \in Pks(workflows)
    /\ WellFormed(workers[w].wf)

\* a step of a clone request
CloneStep(w) == workers'[w].op = "clone" /\ workers'[w] # workers[w]

\* C28: cloning a workflow whose transitions have both endpoints among its own states
\* yields a new draft workflow whose states and transitions are an isomorphic copy
\* (names, flags, order, conditions, actions; endpoints mapped to the copies, which
\* belong to the new workflow) with no instance and no history; no step of the clone
\* changes a stored row, an instance or a history row
C28_CloneIsIsomorphic ==
    /\ [](\A w \in Workers : Cloned(w) =>
              /\ workers[w].res = "201"
              /\ workers[w].clone = Len(workflows)
              /\ workflows[workers[w].clone].status = "draft"
              /\ workflows[workers[w].clone].model = workflows[workers[w].wf].model
              /\ IsomorphicCopy(workers[w].wf, workers[w].clone)
              /\ NothingRuns(workers[w].clone))
    /\ [][\A w \in Workers : CloneStep(w) =>
              /\ SubSeq(workflows', 1, Len(workflows)) = workflows
              /\ SubSeq(states', 1, Len(states)) = states
              /\ SubSeq(transitions', 1, Len(transitions)) = transitions
              /\ instances' = instances
              /\ history' = history
              /\ entities' = entities]_vars

\* the first workflow, with a second transition created through the API, has been cloned
C28_Witness ==
    \E w \in Workers :
        /\ Cloned(w)
        /\ workers[w].wf = 1
        /\ workers[w].res = "201"
        /\ Cardinality({t \in Pks(transitions) : transitions[t].workflow = 1}) = 2

-----------------------------------------------------------------------------
(* State.save under concurrent requests *)

\* a State create or update with is_initial = true
BeginInitialSave(w) ==
    \E s \in 0..Len(states), wf \in Pks(workflows), name \in StateNames :
        StateSaveBegin(w, s, wf, name, TRUE)

NextRace ==
    \E w \in Workers :
        \/ BeginInitialSave(w)
        \/ StateDemote(w)
        \/ StateWrite(w)
        \/ Return(w)

\* State creations and updates served by two workers at once: the demoting UPDATE and
\* the row's own INSERT or UPDATE are separate statements in autocommit
SpecRace == InitDef /\ [][NextRace]_vars

\* worker w writes a state with is_initial = true and no other save is under way
LastInitialSave(w) ==
    /\ workers[w].pc = "state_save"
    /\ workers[w].strow.is_initial
    /\ workers'[w].pc = "done"
    /\ workers'[w].res \in {"200", "201"}
    /\ \A o \in Workers \ {w} : workers[o].pc \in {"idle", "done"}

\* C29: under any interleaving of concurrent saves of states with is_initial = true in
\* one workflow, once they have all finished exactly one state of that workflow has
\* is_initial = true
C29_ConcurrentSavesOneInitial ==
    [][\A w \in Workers : LastInitialSave(w) =>
           Cardinality({k \in Pks(states') :
                           /\ states'[k].workflow = workers[w].strow.workflow
                           /\ states'[k].is_initial}) = 1]_vars

-----------------------------------------------------------------------------
(* Instances over a transition table that is edited through the API *)

InitCross ==
    /\ workflows = WorkflowRows
    /\ states = GraphStates
    /\ transitions = GraphTransitions
    /\ triggers = <<>>
    /\ schedules = <<>>
    /\ \E p \in Priorities : entities = <<Ticket(p, StatusNew)>>
    /\ instances = <<>>
    /\ history = <<>>
    /\ workers = [w \in Workers |-> IdleWorker]

NextCross ==
    \E w \in Workers :
        \/ Alone(w) /\ BeginTransitionCreate(w)
        \/ Alone(w) /\ BeginStart(w)
        \/ Alone(w) /\ BeginTransition(w, Pks(transitions), {""}, MaxHistory)
        \/ GetOrCreateCreate(w)
        \/ SetInitialState(w)
        \/ TransitionGuard(w)
        \/ ExecuteAction(w)
        \/ TransitionSave(w)
        \/ TransitionHistory(w)
        \/ TransitionNotes(w)
        \/ Return(w)

\* transitions are created, instances started and moved, one request at a time
SpecCross == InitCross /\ [][NextCross]_vars

\* C30: in every reachable state the non-null current_state of an instance is a state
\* of the instance's own workflow: no sequence of start and applyTransition moves an
\* instance to a state of another workflow
C30_CurrentStateInWorkflow ==
    \A i \in Pks(instances) :
        instances[i].current_state # NULL =>
            states[instances[i].current_state].workflow = instances[i].workflow

====
